---------------------------- MODULE Spec2Model ----------------------------
(***************************************************************************)
(* A model of the 2048 engine of michael-z94/magic2048:                    *)
(*   utils/gameLogic.ts   the pure grid functions                          *)
(*   hooks/useGameLogic.ts the turn controller (move / reset)              *)
(*                                                                         *)
(* Conventions.  A Cell is a number or null; null is written 0 (no tile    *)
(* ever holds 0).  Arrays are sequences, so the source's index k is k+1    *)
(* here.  Math.random() is a draw in thousandths, r \in 0..999 standing    *)
(* for r/1000.                                                             *)
(***************************************************************************)
EXTENDS Integers, Sequences, FiniteSets, TLC

VARIABLES
    gameState,  \* useGameLogic's React state cell: the current GameState
    call,       \* the operation last invoked and its arguments
    ret,        \* what that operation returned (or the return path it took)
    steps,      \* number of controller operations performed so far
    rendered,   \* the GameState of the last committed render of Game2048: the
                \* value its callbacks (move, handleMove) and effects close over
    touch,      \* useInputHandlers' state cells touchStart and touchEnd
    toasts,     \* how many times each notification was shown
    audio       \* the AudioService object: its fields and its pending timers

vars == <<gameState, call, ret, steps, rendered, touch, toasts, audio>>

\* the state of the Game2048 component around the hook
componentVars == <<rendered, touch, toasts>>

\* a touch position that is null
NoPoint == <<>>

NoTouch == [start |-> NoPoint, end |-> NoPoint]

NoToasts == [win |-> 0, over |-> 0]

\* the component as it is after mounting: rendered once, nothing touched, the
\* notification effect run on a state with both flags false
ComponentIdle ==
    /\ rendered = gameState
    /\ touch = NoTouch
    /\ toasts = NoToasts

\* no AudioService has been constructed
NoService ==
    [constructed |-> FALSE, destroyed |-> FALSE, listeners |-> FALSE, audio |-> "null",
     isLoaded |-> FALSE, loadAttempted |-> FALSE, loadingTimeout |-> "null",
     currentAudioSrc |-> "none",
     timers |-> [primary |-> FALSE, fallback |-> FALSE, resume |-> 0]]

---------------------------------------------------------------------------
(* Configuration: config/gameConfig.ts *)

null == 0

SIZE == 4

WINNING_TILE == 2048

INITIAL_TILES == 2

\* TILE_CONFIG.PROBABILITY_OF_2 = 0.9, in thousandths
PROBABILITY_OF_2 == 900

Direction == {"up", "down", "left", "right"}

---------------------------------------------------------------------------
(* Bounds of the model *)

\* tiles of the enumerated inputs are 2^1 .. 2^MaxExp
MaxExp == 3

\* the position draws tried are NumDraws + 1 values spread over 0..999
NumDraws == 1

\* controller operations per behaviour
MaxSteps == 3

RECURSIVE Pow2(_)
Pow2(k) == IF k = 0 THEN 1 ELSE 2 * Pow2(k - 1)

RECURSIVE SumSeq(_)
SumSeq(q) == IF q = <<>> THEN 0 ELSE q[1] + SumSeq(Tail(q))

Cells == {null} \cup {Pow2(k) : k \in 1..MaxExp}

Draws == {(k * 999) \div NumDraws : k \in 0..NumDraws}

\* a value draw only decides r < 0.9: one draw on each side
ValueDraws == {0, 999}

Index == 1..SIZE

Pos == Index \X Index

---------------------------------------------------------------------------
(* utils/gameLogic.ts *)

\* Array(n).fill(v)
RECURSIVE Fill(_, _)
Fill(n, v) == IF n = 0 THEN <<>> ELSE Append(Fill(n - 1, v), v)

createEmptyGrid == Fill(SIZE, Fill(SIZE, null))

\* the scan of getEmptyCells going down the columns
RECURSIVE getEmptyCellsLoopByColumn(_, _, _)
getEmptyCellsLoopByColumn(grid, k, emptyCells) ==
    IF k >= SIZE * SIZE THEN emptyCells
    ELSE LET row == (k % SIZE) + 1
             col == (k \div SIZE) + 1
         IN  IF grid[row][col] = null
             THEN getEmptyCellsLoopByColumn(grid, k + 1, Append(emptyCells, <<row, col>>))
             ELSE getEmptyCellsLoopByColumn(grid, k + 1, emptyCells)

\* the scan of getEmptyCells, k the row-major position row * SIZE + col
RECURSIVE getEmptyCellsLoop(_, _, _)
getEmptyCellsLoop(grid, k, emptyCells) ==
    IF k >= SIZE * SIZE THEN emptyCells
    ELSE LET row == (k \div SIZE) + 1
             col == (k % SIZE) + 1
         IN  IF grid[row][col] = null
             THEN getEmptyCellsLoop(grid, k + 1, Append(emptyCells, <<row, col>>))
             ELSE getEmptyCellsLoop(grid, k + 1, emptyCells)

\* getEmptyCells without the test for null: every position of the grid
getEmptyCellsUntested(grid) == getEmptyCellsLoop(createEmptyGrid, 0, <<>>)

getEmptyCells(grid) == getEmptyCellsLoop(grid, 0, <<>>)

\* addRandomTile that, finding no empty cell, draws among all the cells
addRandomTileOverwritesWhenFull(grid, rPos, rVal) ==
    LET newGrid == grid
        emptyCells == IF Len(getEmptyCells(newGrid)) = 0
                      THEN getEmptyCellsLoop(createEmptyGrid, 0, <<>>)
                      ELSE getEmptyCells(newGrid)
        randomIndex == (rPos * Len(emptyCells)) \div 1000
        cell == emptyCells[randomIndex + 1]
        newTileValue == IF rVal < PROBABILITY_OF_2 THEN 2 ELSE 4
    IN  [newGrid EXCEPT ![cell[1]][cell[2]] = newTileValue]

\* rPos and rVal are the two Math.random() draws, in thousandths
addRandomTile(grid, rPos, rVal) ==
    LET newGrid == grid
        emptyCells == getEmptyCells(newGrid)
    IN  IF Len(emptyCells) = 0 THEN newGrid
        ELSE LET randomIndex == (rPos * Len(emptyCells)) \div 1000
                 cell == emptyCells[randomIndex + 1]
                 newTileValue == IF rVal < PROBABILITY_OF_2 THEN 2 ELSE 4
             IN  [newGrid EXCEPT ![cell[1]][cell[2]] = newTileValue]

\* JSON.stringify of a Cell[]: the list of its elements' JSON texts
RECURSIVE JSONstringify(_)
JSONstringify(line) ==
    IF line = <<>> THEN <<>>
    ELSE <<IF Head(line) = null THEN "null" ELSE ToString(Head(line))>>
             \o JSONstringify(Tail(line))

filterLine(line) == SelectSeq(line, LAMBDA cell : cell # null)

\* the while loop of processLine over filteredLine, i the source's i + 1
\* the merge loop scoring one operand of the merge instead of the merged tile
RECURSIVE mergeLoopScoresOperand(_, _, _, _)
mergeLoopScoresOperand(filteredLine, i, mergedLine, scoreGained) ==
    IF i > Len(filteredLine)
    THEN [mergedLine |-> mergedLine, scoreGained |-> scoreGained]
    ELSE IF i < Len(filteredLine) /\ filteredLine[i] = filteredLine[i + 1]
         THEN LET mergedValue == filteredLine[i] * 2
              IN  mergeLoopScoresOperand(filteredLine, i + 2,
                                         Append(mergedLine, mergedValue),
                                         scoreGained + filteredLine[i])
         ELSE mergeLoopScoresOperand(filteredLine, i + 1,
                                     Append(mergedLine, filteredLine[i]), scoreGained)

\* the merge loop stepping over one tile only after a merge, so that the
\* second tile of the pair stays on the line
RECURSIVE mergeLoopKeepsOperand(_, _, _, _)
mergeLoopKeepsOperand(filteredLine, i, mergedLine, scoreGained) ==
    IF i > Len(filteredLine)
    THEN [mergedLine |-> mergedLine, scoreGained |-> scoreGained]
    ELSE IF i < Len(filteredLine) /\ filteredLine[i] = filteredLine[i + 1]
         THEN LET mergedValue == filteredLine[i] * 2
              IN  mergeLoopKeepsOperand(filteredLine, i + 1,
                                        Append(mergedLine, mergedValue),
                                        scoreGained + mergedValue)
         ELSE mergeLoopKeepsOperand(filteredLine, i + 1,
                                    Append(mergedLine, filteredLine[i]), scoreGained)

\* the merge loop storing one tile of the pair in place of the doubled value
RECURSIVE mergeLoopStoresOperand(_, _, _, _)
mergeLoopStoresOperand(filteredLine, i, mergedLine, scoreGained) ==
    IF i > Len(filteredLine)
    THEN [mergedLine |-> mergedLine, scoreGained |-> scoreGained]
    ELSE IF i < Len(filteredLine) /\ filteredLine[i] = filteredLine[i + 1]
         THEN LET mergedValue == filteredLine[i] * 2
              IN  mergeLoopStoresOperand(filteredLine, i + 2,
                                         Append(mergedLine, filteredLine[i]),
                                         scoreGained + mergedValue)
         ELSE mergeLoopStoresOperand(filteredLine, i + 1,
                                     Append(mergedLine, filteredLine[i]), scoreGained)

RECURSIVE mergeLoop(_, _, _, _)
mergeLoop(filteredLine, i, mergedLine, scoreGained) ==
    IF i > Len(filteredLine)
    THEN [mergedLine |-> mergedLine, scoreGained |-> scoreGained]
    ELSE IF i < Len(filteredLine) /\ filteredLine[i] = filteredLine[i + 1]
         THEN LET mergedValue == filteredLine[i] * 2
              IN  mergeLoop(filteredLine, i + 2, Append(mergedLine, mergedValue),
                            scoreGained + mergedValue)
         ELSE mergeLoop(filteredLine, i + 1, Append(mergedLine, filteredLine[i]),
                        scoreGained)

\* the padding loop putting the empty cells in front
RECURSIVE padLineLeft(_)
padLineLeft(mergedLine) ==
    IF Len(mergedLine) < SIZE THEN padLineLeft(<<null>> \o mergedLine) ELSE mergedLine

RECURSIVE padLine(_)
padLine(mergedLine) ==
    IF Len(mergedLine) < SIZE THEN padLine(Append(mergedLine, null)) ELSE mergedLine

\* Array.prototype.reverse
RECURSIVE Reverse(_)
Reverse(line) == IF line = <<>> THEN <<>> ELSE Append(Reverse(Tail(line)), Head(line))

\* processLine with a merged tile merged again (a stack that keeps collapsing)
RECURSIVE collapseTop(_, _)
collapseTop(mergedLine, scoreGained) ==
    LET n == Len(mergedLine)
    IN  IF n >= 2 /\ mergedLine[n] = mergedLine[n - 1]
        THEN collapseTop(Append(SubSeq(mergedLine, 1, n - 2), mergedLine[n] * 2),
                         scoreGained + mergedLine[n] * 2)
        ELSE [mergedLine |-> mergedLine, scoreGained |-> scoreGained]

RECURSIVE mergeLoopCascading(_, _, _, _)
mergeLoopCascading(filteredLine, i, mergedLine, scoreGained) ==
    IF i > Len(filteredLine)
    THEN [mergedLine |-> mergedLine, scoreGained |-> scoreGained]
    ELSE LET c == collapseTop(Append(mergedLine, filteredLine[i]), scoreGained)
         IN  mergeLoopCascading(filteredLine, i + 1, c.mergedLine, c.scoreGained)

processLineCascading(line) ==
    LET merged == mergeLoopCascading(filterLine(line), 1, <<>>, 0)
        mergedLine == padLine(merged.mergedLine)
    IN  [newLine |-> mergedLine,
         changed |-> JSONstringify(line) # JSONstringify(mergedLine),
         scoreGained |-> merged.scoreGained]

\* processLine pairing the tiles from the far end of the line
processLineFromEnd(line) ==
    LET merged == mergeLoop(Reverse(filterLine(line)), 1, <<>>, 0)
        mergedLine == padLine(Reverse(merged.mergedLine))
    IN  [newLine |-> mergedLine,
         changed |-> JSONstringify(line) # JSONstringify(mergedLine),
         scoreGained |-> merged.scoreGained]

\* processLine whose merge adds the pair onto the doubled value
RECURSIVE mergeLoopTripling(_, _, _, _)
mergeLoopTripling(filteredLine, i, mergedLine, scoreGained) ==
    IF i > Len(filteredLine)
    THEN [mergedLine |-> mergedLine, scoreGained |-> scoreGained]
    ELSE IF i < Len(filteredLine) /\ filteredLine[i] = filteredLine[i + 1]
         THEN LET mergedValue == filteredLine[i] * 2 + filteredLine[i + 1]
              IN  mergeLoopTripling(filteredLine, i + 2, Append(mergedLine, mergedValue),
                                    scoreGained + mergedValue)
         ELSE mergeLoopTripling(filteredLine, i + 1,
                                Append(mergedLine, filteredLine[i]), scoreGained)

processLineTripling(line) ==
    LET merged == mergeLoopTripling(filterLine(line), 1, <<>>, 0)
        mergedLine == padLine(merged.mergedLine)
    IN  [newLine |-> mergedLine,
         changed |-> JSONstringify(line) # JSONstringify(mergedLine),
         scoreGained |-> merged.scoreGained]

\* processLine reporting a change only when it merged
processLineChangedOnMerge(line) ==
    LET merged == mergeLoop(filterLine(line), 1, <<>>, 0)
        mergedLine == padLine(merged.mergedLine)
    IN  [newLine |-> mergedLine, changed |-> merged.scoreGained > 0,
         scoreGained |-> merged.scoreGained]

\* processLine comparing the two arrays by identity: they are never the same
processLineChangedByIdentity(line) ==
    LET merged == mergeLoop(filterLine(line), 1, <<>>, 0)
        mergedLine == padLine(merged.mergedLine)
    IN  [newLine |-> mergedLine, changed |-> TRUE,
         scoreGained |-> merged.scoreGained]

processLine(line) ==
    LET originalLine == line
        filteredLine == filterLine(line)
        merged == mergeLoop(filteredLine, 1, <<>>, 0)
        mergedLine == padLine(merged.mergedLine)
        changed == JSONstringify(originalLine) # JSONstringify(mergedLine)
    IN  [newLine |-> mergedLine, changed |-> changed,
         scoreGained |-> merged.scoreGained]


\* [newGrid[0][col], newGrid[1][col], newGrid[2][col], newGrid[3][col]]
Column(newGrid, col) == <<newGrid[1][col], newGrid[2][col], newGrid[3][col], newGrid[4][col]>>

\* the write-back of a processed column laid down as row col
writeColumnAsRow(newGrid, col, line, row) == [newGrid EXCEPT ![col] = line]

\* for (row ...) newGrid[row][col] = line[row]
RECURSIVE writeColumn(_, _, _, _)
writeColumn(newGrid, col, line, row) ==
    IF row > SIZE THEN newGrid
    ELSE writeColumn([newGrid EXCEPT ![row][col] = line[row]], col, line, row + 1)

\* the four loops of moveGrid, one per direction
\* the loop for 'left' leaving at the first row that did not change
RECURSIVE moveLeftLoopStopAtUnchanged(_, _, _, _)
moveLeftLoopStopAtUnchanged(newGrid, row, totalMoved, totalScoreGained) ==
    IF row > SIZE
    THEN [newGrid |-> newGrid, moved |-> totalMoved, scoreGained |-> totalScoreGained]
    ELSE LET r == processLine(newGrid[row])
         IN  IF r.changed
             THEN moveLeftLoopStopAtUnchanged([newGrid EXCEPT ![row] = r.newLine],
                                              row + 1, TRUE,
                                              totalScoreGained + r.scoreGained)
             ELSE [newGrid |-> newGrid, moved |-> totalMoved,
                   scoreGained |-> totalScoreGained]

RECURSIVE moveLeftLoop(_, _, _, _)
moveLeftLoop(newGrid, row, totalMoved, totalScoreGained) ==
    IF row > SIZE
    THEN [newGrid |-> newGrid, moved |-> totalMoved, scoreGained |-> totalScoreGained]
    ELSE LET r == processLine(newGrid[row])
         IN  IF r.changed
             THEN moveLeftLoop([newGrid EXCEPT ![row] = r.newLine], row + 1, TRUE,
                               totalScoreGained + r.scoreGained)
             ELSE moveLeftLoop(newGrid, row + 1, totalMoved, totalScoreGained)

\* the loop for 'right' pairing the tiles from the left edge before it packs
\* them to the right
RECURSIVE moveRightLoopPairFromLeft(_, _, _, _)
moveRightLoopPairFromLeft(newGrid, row, totalMoved, totalScoreGained) ==
    IF row > SIZE
    THEN [newGrid |-> newGrid, moved |-> totalMoved, scoreGained |-> totalScoreGained]
    ELSE LET r == processLine(newGrid[row])
             tiles == filterLine(r.newLine)
             packed == Fill(SIZE - Len(tiles), null) \o tiles
         IN  IF packed # newGrid[row]
             THEN moveRightLoopPairFromLeft([newGrid EXCEPT ![row] = packed], row + 1,
                                            TRUE, totalScoreGained + r.scoreGained)
             ELSE moveRightLoopPairFromLeft(newGrid, row + 1, totalMoved,
                                            totalScoreGained)

\* the loop for 'right' storing the processed line without reversing it back
RECURSIVE moveRightLoopNotReversedBack(_, _, _, _)
moveRightLoopNotReversedBack(newGrid, row, totalMoved, totalScoreGained) ==
    IF row > SIZE
    THEN [newGrid |-> newGrid, moved |-> totalMoved, scoreGained |-> totalScoreGained]
    ELSE LET reversedRow == Reverse(newGrid[row])
             r == processLine(reversedRow)
         IN  IF r.changed
             THEN moveRightLoopNotReversedBack([newGrid EXCEPT ![row] = r.newLine],
                                               row + 1, TRUE,
                                               totalScoreGained + r.scoreGained)
             ELSE moveRightLoopNotReversedBack(newGrid, row + 1, totalMoved,
                                               totalScoreGained)

RECURSIVE moveRightLoop(_, _, _, _)
moveRightLoop(newGrid, row, totalMoved, totalScoreGained) ==
    IF row > SIZE
    THEN [newGrid |-> newGrid, moved |-> totalMoved, scoreGained |-> totalScoreGained]
    ELSE LET reversedRow == Reverse(newGrid[row])
             r == processLine(reversedRow)
         IN  IF r.changed
             THEN moveRightLoop([newGrid EXCEPT ![row] = Reverse(r.newLine)], row + 1,
                                TRUE, totalScoreGained + r.scoreGained)
             ELSE moveRightLoop(newGrid, row + 1, totalMoved, totalScoreGained)

\* the loop for 'up' counting a column as moved only when it merged
RECURSIVE moveUpLoopMovedOnMerge(_, _, _, _)
moveUpLoopMovedOnMerge(newGrid, col, totalMoved, totalScoreGained) ==
    IF col > SIZE
    THEN [newGrid |-> newGrid, moved |-> totalMoved, scoreGained |-> totalScoreGained]
    ELSE LET column == Column(newGrid, col)
             r == processLine(column)
         IN  IF r.changed
             THEN moveUpLoopMovedOnMerge(writeColumn(newGrid, col, r.newLine, 1),
                                         col + 1, totalMoved \/ r.scoreGained > 0,
                                         totalScoreGained + r.scoreGained)
             ELSE moveUpLoopMovedOnMerge(newGrid, col + 1, totalMoved,
                                         totalScoreGained)

RECURSIVE moveUpLoop(_, _, _, _)
moveUpLoop(newGrid, col, totalMoved, totalScoreGained) ==
    IF col > SIZE
    THEN [newGrid |-> newGrid, moved |-> totalMoved, scoreGained |-> totalScoreGained]
    ELSE LET column == Column(newGrid, col)
             r == processLine(column)
         IN  IF r.changed
             THEN moveUpLoop(writeColumn(newGrid, col, r.newLine, 1), col + 1, TRUE,
                             totalScoreGained + r.scoreGained)
             ELSE moveUpLoop(newGrid, col + 1, totalMoved, totalScoreGained)

RECURSIVE moveDownLoop(_, _, _, _)
moveDownLoop(newGrid, col, totalMoved, totalScoreGained) ==
    IF col > SIZE
    THEN [newGrid |-> newGrid, moved |-> totalMoved, scoreGained |-> totalScoreGained]
    ELSE LET column == Reverse(Column(newGrid, col))
             r == processLine(column)
         IN  IF r.changed
             THEN LET reversedLine == Reverse(r.newLine)
                  IN  moveDownLoop(writeColumn(newGrid, col, reversedLine, 1), col + 1,
                                   TRUE, totalScoreGained + r.scoreGained)
             ELSE moveDownLoop(newGrid, col + 1, totalMoved, totalScoreGained)

moveGrid(grid, direction) ==
    LET newGrid == grid
    IN  IF direction = "left" THEN moveLeftLoop(newGrid, 1, FALSE, 0)
        ELSE IF direction = "right" THEN moveRightLoop(newGrid, 1, FALSE, 0)
        ELSE IF direction = "up" THEN moveUpLoop(newGrid, 1, FALSE, 0)
        ELSE IF direction = "down" THEN moveDownLoop(newGrid, 1, FALSE, 0)
        ELSE [newGrid |-> newGrid, moved |-> FALSE, scoreGained |-> 0]

\* isGameOver without the scan of the vertical pairs
isGameOverNoVertical(grid) ==
    IF \E row \in 1..SIZE, col \in 1..SIZE : grid[row][col] = null THEN FALSE
    ELSE IF \E row \in 1..SIZE, col \in 1..(SIZE - 1) : grid[row][col] = grid[row][col + 1]
         THEN FALSE
    ELSE TRUE

\* isGameOver without the scan for empty cells
isGameOverNoEmptyScan(grid) ==
    IF \E row \in 1..SIZE, col \in 1..(SIZE - 1) : grid[row][col] = grid[row][col + 1]
    THEN FALSE
    ELSE IF \E row \in 1..(SIZE - 1), col \in 1..SIZE : grid[row][col] = grid[row + 1][col]
         THEN FALSE
    ELSE TRUE

\* three scans, each returning false at its first hit
isGameOver(grid) ==
    IF \E row \in 1..SIZE, col \in 1..SIZE : grid[row][col] = null THEN FALSE
    ELSE IF \E row \in 1..SIZE, col \in 1..(SIZE - 1) : grid[row][col] = grid[row][col + 1]
         THEN FALSE
    ELSE IF \E row \in 1..(SIZE - 1), col \in 1..SIZE : grid[row][col] = grid[row + 1][col]
         THEN FALSE
    ELSE TRUE

\* hasWon accepting every tile that has reached the winning value
hasWonAtLeast(grid) == \E row \in 1..SIZE, col \in 1..SIZE : grid[row][col] >= WINNING_TILE

hasWon(grid) == \E row \in 1..SIZE, col \in 1..SIZE : grid[row][col] = WINNING_TILE

\* the seeding loop drawing every tile's cell from the cells of the empty grid
RECURSIVE initializeLoopOnEmptyGrid(_, _, _)
initializeLoopOnEmptyGrid(grid, i, draws) ==
    IF i > INITIAL_TILES THEN grid
    ELSE LET emptyCells == getEmptyCells(createEmptyGrid)
             cell == emptyCells[((draws[i][1] * Len(emptyCells)) \div 1000) + 1]
             newTileValue == IF draws[i][2] < PROBABILITY_OF_2 THEN 2 ELSE 4
         IN  initializeLoopOnEmptyGrid([grid EXCEPT ![cell[1]][cell[2]] = newTileValue],
                                       i + 1, draws)

\* draws[i] = <<rPos, rVal>> are the draws of the i-th addRandomTile call
RECURSIVE initializeLoop(_, _, _)
initializeLoop(grid, i, draws) ==
    IF i > INITIAL_TILES THEN grid
    ELSE initializeLoop(addRandomTile(grid, draws[i][1], draws[i][2]), i + 1, draws)

\* initializeGame counting the placed tiles into the score
initializeGameScoringTiles(draws) ==
    [grid |-> initializeLoop(createEmptyGrid, 1, draws),
     score |-> INITIAL_TILES, gameOver |-> FALSE, won |-> FALSE]

initializeGame(draws) ==
    [grid |-> initializeLoop(createEmptyGrid, 1, draws),
     score |-> 0, gameOver |-> FALSE, won |-> FALSE]

---------------------------------------------------------------------------
(* hooks/useGameLogic.ts *)

\* which return of move is taken
movePath(gs, direction) ==
    IF gs.gameOver THEN "over"
    ELSE IF ~moveGrid(gs.grid, direction).moved THEN "unmoved"
    ELSE "accepted"

\* move with the new score taken from this move alone
moveScoreReplaced(gs, direction, rPos, rVal) ==
    IF gs.gameOver THEN gs
    ELSE LET m == moveGrid(gs.grid, direction)
         IN  IF ~m.moved THEN gs
             ELSE LET gridWithNewTile == addRandomTile(m.newGrid, rPos, rVal)
                  IN  [grid |-> gridWithNewTile, score |-> m.scoreGained,
                       gameOver |-> isGameOver(gridWithNewTile),
                       won |-> gs.won \/ hasWon(gridWithNewTile)]

\* move with won recomputed from the board alone
moveWonRecomputed(gs, direction, rPos, rVal) ==
    IF gs.gameOver THEN gs
    ELSE LET m == moveGrid(gs.grid, direction)
         IN  IF ~m.moved THEN gs
             ELSE LET gridWithNewTile == addRandomTile(m.newGrid, rPos, rVal)
                  IN  [grid |-> gridWithNewTile, score |-> gs.score + m.scoreGained,
                       gameOver |-> isGameOver(gridWithNewTile),
                       won |-> hasWon(gridWithNewTile)]

\* move whose game-over branch clears the flag instead of returning
moveRetryWhenOver(gs, direction, rPos, rVal) ==
    IF gs.gameOver THEN [gs EXCEPT !.gameOver = FALSE]
    ELSE LET m == moveGrid(gs.grid, direction)
         IN  IF ~m.moved THEN gs
             ELSE LET gridWithNewTile == addRandomTile(m.newGrid, rPos, rVal)
                  IN  [grid |-> gridWithNewTile, score |-> gs.score + m.scoreGained,
                       gameOver |-> isGameOver(gridWithNewTile),
                       won |-> gs.won \/ hasWon(gridWithNewTile)]

\* move with game over detected on the grid before the tile is spawned
moveGameOverBeforeSpawn(gs, direction, rPos, rVal) ==
    IF gs.gameOver THEN gs
    ELSE LET m == moveGrid(gs.grid, direction)
         IN  IF ~m.moved THEN gs
             ELSE LET gridWithNewTile == addRandomTile(m.newGrid, rPos, rVal)
                  IN  [grid |-> gridWithNewTile, score |-> gs.score + m.scoreGained,
                       gameOver |-> isGameOver(m.newGrid),
                       won |-> gs.won \/ hasWon(gridWithNewTile)]

\* move without the early return for a board that did not move
moveWithoutMovedCheck(gs, direction, rPos, rVal) ==
    IF gs.gameOver THEN gs
    ELSE LET m == moveGrid(gs.grid, direction)
             gridWithNewTile == addRandomTile(m.newGrid, rPos, rVal)
         IN  [grid |-> gridWithNewTile, score |-> gs.score + m.scoreGained,
              gameOver |-> isGameOver(gridWithNewTile),
              won |-> gs.won \/ hasWon(gridWithNewTile)]

\* move spawning a second tile after the first
moveSpawnsTwice(gs, direction, rPos, rVal) ==
    IF gs.gameOver THEN gs
    ELSE LET m == moveGrid(gs.grid, direction)
         IN  IF ~m.moved THEN gs
             ELSE LET gridWithNewTile ==
                          addRandomTile(addRandomTile(m.newGrid, rPos, rVal), rPos, rVal)
                  IN  [grid |-> gridWithNewTile, score |-> gs.score + m.scoreGained,
                       gameOver |-> isGameOver(gridWithNewTile),
                       won |-> gs.won \/ hasWon(gridWithNewTile)]

\* move raising won from the grid it started on: a move late
moveWonFromOldGrid(gs, direction, rPos, rVal) ==
    IF gs.gameOver THEN gs
    ELSE LET m == moveGrid(gs.grid, direction)
         IN  IF ~m.moved THEN gs
             ELSE LET gridWithNewTile == addRandomTile(m.newGrid, rPos, rVal)
                  IN  [grid |-> gridWithNewTile, score |-> gs.score + m.scoreGained,
                       gameOver |-> isGameOver(gridWithNewTile),
                       won |-> gs.won \/ hasWon(gs.grid)]

\* move taking gameOver from the grid it started on
moveGameOverFromStartGrid(gs, direction, rPos, rVal) ==
    IF gs.gameOver THEN gs
    ELSE LET m == moveGrid(gs.grid, direction)
         IN  IF ~m.moved THEN gs
             ELSE LET gridWithNewTile == addRandomTile(m.newGrid, rPos, rVal)
                  IN  [grid |-> gridWithNewTile, score |-> gs.score + m.scoreGained,
                       gameOver |-> isGameOver(gs.grid),
                       won |-> gs.won \/ hasWon(gridWithNewTile)]

\* the GameState after move(direction): gs itself when setGameState is not called
move(gs, direction, rPos, rVal) ==
    IF gs.gameOver THEN gs
    ELSE LET m == moveGrid(gs.grid, direction)
         IN  IF ~m.moved THEN gs
             ELSE LET gridWithNewTile == addRandomTile(m.newGrid, rPos, rVal)
                      newScore == gs.score + m.scoreGained
                      gameOver == isGameOver(gridWithNewTile)
                      won == gs.won \/ hasWon(gridWithNewTile)
                  IN  [grid |-> gridWithNewTile, score |-> newScore,
                       gameOver |-> gameOver, won |-> won]

reset(draws) == initializeGame(draws)

InitialDraws == [1..INITIAL_TILES -> Draws \X ValueDraws]

NoCall == [fn |-> "none"]

\* every GameState initializeGame can return
FreshGames == {initializeGame(draws) : draws \in InitialDraws}

\* every GameState reset can store
ResetGames == {reset(draws) : draws \in InitialDraws}

\* useState(() => initializeGame())
Init ==
    /\ gameState \in FreshGames
    /\ call = NoCall
    /\ ret = "none"
    /\ steps = 0
    /\ ComponentIdle
    /\ audio = NoService

\* Math.random() is called only by addRandomTile, on the accepted path
Move(direction) ==
    /\ steps < MaxSteps
    /\ LET called == movePath(gameState, direction) = "accepted"
       IN  \E rPos \in (IF called THEN Draws ELSE {0}),
              rVal \in (IF called THEN ValueDraws ELSE {0}) :
               gameState' = move(gameState, direction, rPos, rVal)
    /\ call' = [fn |-> "move", direction |-> direction]
    /\ ret' = movePath(gameState, direction)
    /\ steps' = steps + 1
    /\ rendered' = gameState'
    /\ UNCHANGED <<touch, toasts, audio>>

\* reset refusing to start a new game once the game is over
ResetUnlessOver ==
    /\ steps < MaxSteps
    /\ ~gameState.gameOver
    /\ gameState' \in ResetGames
    /\ call' = [fn |-> "reset"]
    /\ ret' = "none"
    /\ steps' = steps + 1
    /\ rendered' = gameState'
    /\ UNCHANGED <<touch, toasts, audio>>

Reset ==
    /\ steps < MaxSteps
    /\ gameState' \in ResetGames
    /\ call' = [fn |-> "reset"]
    /\ ret' = "none"
    /\ steps' = steps + 1
    /\ rendered' = gameState'
    /\ UNCHANGED <<touch, toasts, audio>>

Next ==
    \/ \E direction \in Direction : Move(direction)
    \/ Reset

Spec == Init /\ [][Next]_vars

---------------------------------------------------------------------------
(* The pure functions applied to enumerated arguments *)

\* the state cell before the hook is mounted
Unmounted == [grid |-> createEmptyGrid, score |-> 0, gameOver |-> FALSE, won |-> FALSE]

NoReturn == [fn |-> "none"]

Lines == {<<a, b, c, d>> : a \in Cells, b \in Cells, c \in Cells, d \in Cells}

InitLine ==
    /\ gameState = Unmounted
    /\ \E line \in Lines : call = [fn |-> "processLine", line |-> line]
    /\ ret = NoReturn
    /\ steps = 0
    /\ ComponentIdle
    /\ audio = NoService

CallProcessLine ==
    /\ call.fn = "processLine"
    /\ ret.fn = "none"
    /\ ret' = [fn |-> "processLine", value |-> processLine(call.line)]
    /\ UNCHANGED <<gameState, call, steps, componentVars, audio>>

NextLine == CallProcessLine

SpecLine == InitLine /\ [][NextLine]_vars

\* cells overwritten in a base grid to make a test grid
MaxEdits == 2

\* a full grid with no two neighbouring cells equal
Checkerboard == <<<<2, 4, 2, 4>>, <<4, 2, 4, 2>>, <<2, 4, 2, 4>>, <<4, 2, 4, 2>>>>

RECURSIVE Edited(_)
Edited(k) ==
    IF k = 0 THEN {Checkerboard, createEmptyGrid}
    ELSE LET prev == Edited(k - 1)
         IN  prev \cup {[g EXCEPT ![p[1]][p[2]] = v] : g \in prev, p \in Pos, v \in Cells}

TestGrids == Edited(MaxEdits)

InitGrid ==
    /\ gameState = Unmounted
    /\ \E grid \in TestGrids : call = [fn |-> "grid", grid |-> grid]
    /\ ret = NoReturn
    /\ steps = 0
    /\ ComponentIdle
    /\ audio = NoService

CallMoveGrid(direction) ==
    /\ call.fn = "grid"
    /\ ret.fn = "none"
    /\ ret' = [fn |-> "moveGrid", direction |-> direction,
               value |-> moveGrid(call.grid, direction)]
    /\ UNCHANGED <<gameState, call, steps, componentVars, audio>>

CallIsGameOver ==
    /\ call.fn = "grid"
    /\ ret.fn = "none"
    /\ ret' = [fn |-> "isGameOver", value |-> isGameOver(call.grid)]
    /\ UNCHANGED <<gameState, call, steps, componentVars, audio>>

NextGrid ==
    \/ \E direction \in Direction : CallMoveGrid(direction)
    \/ CallIsGameOver

SpecGrid == InitGrid /\ [][NextGrid]_vars

---------------------------------------------------------------------------
(* addRandomTile applied to enumerated grids, and again to its own result *)

\* cells emptied in a full grid to make an argument of addRandomTile
MaxHoles == 2

\* addRandomTile calls in a row
MaxCalls == 2

CheckerboardMirrored == <<<<4, 2, 4, 2>>, <<2, 4, 2, 4>>, <<4, 2, 4, 2>>, <<2, 4, 2, 4>>>>

RECURSIVE Holed(_)
Holed(k) ==
    IF k = 0 THEN {Checkerboard, CheckerboardMirrored}
    ELSE LET prev == Holed(k - 1)
         IN  prev \cup {[g EXCEPT ![p[1]][p[2]] = null] : g \in prev, p \in Pos}

SpawnGrids == Holed(MaxHoles) \cup {createEmptyGrid}

InitTile ==
    /\ gameState = Unmounted
    /\ \E grid \in SpawnGrids : call = [fn |-> "grid", grid |-> grid]
    /\ ret = NoReturn
    /\ steps = 0
    /\ ComponentIdle
    /\ audio = NoService

\* Math.random() is called only when the grid has an empty cell
CallAddRandomTile ==
    /\ call.fn = "grid"
    /\ steps < MaxCalls
    /\ LET grid == IF ret.fn = "none" THEN call.grid ELSE ret.value
           full == Len(getEmptyCells(grid)) = 0
       IN  \E rPos \in (IF full THEN {0} ELSE Draws),
              rVal \in (IF full THEN {0} ELSE ValueDraws) :
               ret' = [fn |-> "addRandomTile", grid |-> grid, rPos |-> rPos,
                       rVal |-> rVal, value |-> addRandomTile(grid, rPos, rVal)]
    /\ steps' = steps + 1
    /\ UNCHANGED <<gameState, call, componentVars, audio>>

NextTile == CallAddRandomTile

SpecTile == InitTile /\ [][NextTile]_vars

---------------------------------------------------------------------------
(* moveGrid called with any string as its direction *)

\* the four directions and values the Direction type does not hold
AnyDirection == Direction \cup {"diagonal", "LEFT"}

NextGridAny == \E direction \in AnyDirection : CallMoveGrid(direction)

SpecGridAny == InitGrid /\ [][NextGridAny]_vars

---------------------------------------------------------------------------
(* moveGrid 'right' followed by moveGrid 'left' on the grid it returned *)

\* moveGrid(moveGrid(grid, "right").newGrid, "left")
CallMoveGridLeftAfterRight ==
    /\ ret.fn = "moveGrid"
    /\ ret.direction = "right"
    /\ ret' = [fn |-> "moveGridAgain", direction |-> "left", first |-> ret.value,
               value |-> moveGrid(ret.value.newGrid, "left")]
    /\ UNCHANGED <<gameState, call, steps, componentVars, audio>>

NextRound ==
    \/ CallMoveGrid("right")
    \/ CallMoveGridLeftAfterRight

SpecRound == InitGrid /\ [][NextRound]_vars

---------------------------------------------------------------------------
(* getEmptyCells applied to enumerated grids *)

CallGetEmptyCells ==
    /\ call.fn = "grid"
    /\ ret.fn = "none"
    /\ ret' = [fn |-> "getEmptyCells", value |-> getEmptyCells(call.grid)]
    /\ UNCHANGED <<gameState, call, steps, componentVars, audio>>

NextCells == CallGetEmptyCells

SpecCells == InitGrid /\ [][NextCells]_vars

---------------------------------------------------------------------------
(* utils/gameLogic.ts on arrays held by reference                          *)
(*                                                                         *)
(* A heap is a sequence of arrays and a reference is an index into it.  A  *)
(* row is an array of cells; a grid is an array of four references to rows. *)

\* a heap holding the rows of grid at 1..4 and the grid itself at 5
storeGrid(grid) == <<grid[1], grid[2], grid[3], grid[4], <<1, 2, 3, 4>>>>

\* the reference of the grid storeGrid stores
storedRef == SIZE + 1

\* the cells reached from a grid reference
deref(heap, ref) ==
    <<heap[heap[ref][1]], heap[heap[ref][2]], heap[heap[ref][3]], heap[heap[ref][4]]>>

\* [...grid]: a new outer array over the same rows
copyGridShallow(heap, ref) ==
    [heap |-> Append(heap, heap[ref]), ref |-> Len(heap) + 1]

\* grid.map((row) => [...row]): four new rows and a new outer array
copyGrid(heap, ref) ==
    LET n == Len(heap)
    IN  [heap |-> heap \o deref(heap, ref) \o <<<<n + 1, n + 2, n + 3, n + 4>>>>,
         ref |-> n + SIZE + 1]

\* newGrid[row] = newLine for the rows ('left', and 'right' through reverse)
RECURSIVE moveRowsOnHeap(_, _, _, _, _, _)
moveRowsOnHeap(heap, newGrid, row, reversed, totalMoved, totalScoreGained) ==
    IF row > SIZE
    THEN [heap |-> heap, newGrid |-> newGrid, moved |-> totalMoved,
          scoreGained |-> totalScoreGained]
    ELSE LET line == heap[heap[newGrid][row]]
             r == processLine(IF reversed THEN Reverse(line) ELSE line)
             newLine == IF reversed THEN Reverse(r.newLine) ELSE r.newLine
         IN  IF r.changed
             THEN moveRowsOnHeap([Append(heap, newLine) EXCEPT ![newGrid][row] = Len(heap) + 1],
                                 newGrid, row + 1, reversed, TRUE,
                                 totalScoreGained + r.scoreGained)
             ELSE moveRowsOnHeap(heap, newGrid, row + 1, reversed, totalMoved,
                                 totalScoreGained)

\* for (row ...) newGrid[row][col] = line[row], written into the rows in place
RECURSIVE writeColumnOnHeap(_, _, _, _, _)
writeColumnOnHeap(heap, newGrid, col, line, row) ==
    IF row > SIZE THEN heap
    ELSE writeColumnOnHeap([heap EXCEPT ![heap[newGrid][row]][col] = line[row]],
                           newGrid, col, line, row + 1)

\* the loops over the columns ('up', and 'down' through reverse)
RECURSIVE moveColumnsOnHeap(_, _, _, _, _, _)
moveColumnsOnHeap(heap, newGrid, col, reversed, totalMoved, totalScoreGained) ==
    IF col > SIZE
    THEN [heap |-> heap, newGrid |-> newGrid, moved |-> totalMoved,
          scoreGained |-> totalScoreGained]
    ELSE LET column == Column(deref(heap, newGrid), col)
             r == processLine(IF reversed THEN Reverse(column) ELSE column)
             newLine == IF reversed THEN Reverse(r.newLine) ELSE r.newLine
         IN  IF r.changed
             THEN moveColumnsOnHeap(writeColumnOnHeap(heap, newGrid, col, newLine, 1),
                                    newGrid, col + 1, reversed, TRUE,
                                    totalScoreGained + r.scoreGained)
             ELSE moveColumnsOnHeap(heap, newGrid, col + 1, reversed, totalMoved,
                                    totalScoreGained)

moveGridOnHeap(heap, grid, direction) ==
    LET c == copyGrid(heap, grid)
    IN  IF direction = "left" THEN moveRowsOnHeap(c.heap, c.ref, 1, FALSE, FALSE, 0)
        ELSE IF direction = "right" THEN moveRowsOnHeap(c.heap, c.ref, 1, TRUE, FALSE, 0)
        ELSE IF direction = "up" THEN moveColumnsOnHeap(c.heap, c.ref, 1, FALSE, FALSE, 0)
        ELSE IF direction = "down" THEN moveColumnsOnHeap(c.heap, c.ref, 1, TRUE, FALSE, 0)
        ELSE [heap |-> c.heap, newGrid |-> c.ref, moved |-> FALSE, scoreGained |-> 0]

addRandomTileOnHeap(heap, grid, rPos, rVal) ==
    LET c == copyGrid(heap, grid)
        emptyCells == getEmptyCells(deref(c.heap, c.ref))
    IN  IF Len(emptyCells) = 0 THEN [heap |-> c.heap, newGrid |-> c.ref]
        ELSE LET randomIndex == (rPos * Len(emptyCells)) \div 1000
                 cell == emptyCells[randomIndex + 1]
                 newTileValue == IF rVal < PROBABILITY_OF_2 THEN 2 ELSE 4
             IN  [heap |-> [c.heap EXCEPT ![c.heap[c.ref][cell[1]]][cell[2]] = newTileValue],
                  newGrid |-> c.ref]

InitHeap ==
    /\ gameState = Unmounted
    /\ \E grid \in SpawnGrids :
           call = [fn |-> "heap", heap |-> storeGrid(grid), grid |-> storedRef]
    /\ ret = NoReturn
    /\ steps = 0
    /\ ComponentIdle
    /\ audio = NoService

CallMoveGridOnHeap(direction) ==
    /\ call.fn = "heap"
    /\ ret.fn = "none"
    /\ ret' = [fn |-> "moveGrid", direction |-> direction,
               value |-> moveGridOnHeap(call.heap, call.grid, direction)]
    /\ UNCHANGED <<gameState, call, steps, componentVars, audio>>

CallAddRandomTileOnHeap ==
    /\ call.fn = "heap"
    /\ ret.fn = "none"
    /\ LET full == Len(getEmptyCells(deref(call.heap, call.grid))) = 0
       IN  \E rPos \in (IF full THEN {0} ELSE Draws),
              rVal \in (IF full THEN {0} ELSE ValueDraws) :
               ret' = [fn |-> "addRandomTile", rPos |-> rPos, rVal |-> rVal,
                       value |-> addRandomTileOnHeap(call.heap, call.grid, rPos, rVal)]
    /\ UNCHANGED <<gameState, call, steps, componentVars, audio>>

NextHeap ==
    \/ \E direction \in Direction : CallMoveGridOnHeap(direction)
    \/ CallAddRandomTileOnHeap

SpecHeap == InitHeap /\ [][NextHeap]_vars

---------------------------------------------------------------------------
(* The controller started from positions late in a game *)

\* the score collected in building a tile from spawned 2s
RECURSIVE tileScore(_)
tileScore(v) == IF v <= 2 THEN 0 ELSE 2 * tileScore(v \div 2) + v

RECURSIVE lineScore(_)
lineScore(line) == IF line = <<>> THEN 0 ELSE tileScore(Head(line)) + lineScore(Tail(line))

RECURSIVE gridScore(_)
gridScore(grid) == IF grid = <<>> THEN 0 ELSE lineScore(Head(grid)) + gridScore(Tail(grid))

\* one move from two 2048 tiles, two moves from a 4096 tile
NearWin == <<<<1024, 1024, 1024, 1024>>,
             <<8, 4, 2, null>>,
             <<null, null, null, null>>,
             <<null, null, null, null>>>>

\* one empty cell; moving left fills it and leaves no equal neighbours
NearOver == <<<<null, 8, 4, 16>>,
              <<4, 8, 32, 64>>,
              <<8, 16, 64, 128>>,
              <<16, 32, 128, 256>>>>

LateGames ==
    {[grid |-> g, score |-> gridScore(g), gameOver |-> FALSE, won |-> FALSE] :
        g \in {NearWin, NearOver}}

InitLate ==
    /\ gameState \in LateGames
    /\ call = NoCall
    /\ ret = "none"
    /\ steps = 0
    /\ ComponentIdle
    /\ audio = NoService

SpecLate == InitLate /\ [][Next]_vars

---------------------------------------------------------------------------
(* hasWon applied to grids holding tiles around the winning value *)

HighCells == {null, 1024, 2048, 4096}

RECURSIVE EditedHigh(_)
EditedHigh(k) ==
    IF k = 0 THEN {Checkerboard, createEmptyGrid, NearWin}
    ELSE LET prev == EditedHigh(k - 1)
         IN  prev \cup {[g EXCEPT ![p[1]][p[2]] = v] : g \in prev, p \in Pos, v \in HighCells}

HighGrids == EditedHigh(MaxEdits)

InitWon ==
    /\ gameState = Unmounted
    /\ \E grid \in HighGrids : call = [fn |-> "grid", grid |-> grid]
    /\ ret = NoReturn
    /\ steps = 0
    /\ ComponentIdle
    /\ audio = NoService

CallHasWon ==
    /\ call.fn = "grid"
    /\ ret.fn = "none"
    /\ ret' = [fn |-> "hasWon", value |-> hasWon(call.grid)]
    /\ UNCHANGED <<gameState, call, steps, componentVars, audio>>

NextWon == CallHasWon

SpecWon == InitWon /\ [][NextWon]_vars

---------------------------------------------------------------------------
(* The controller started from finished games *)

\* a full grid with no two neighbouring cells equal that holds the winning tile
CheckerboardWon == <<<<2048, 4, 2, 4>>, <<4, 2, 4, 2>>, <<2, 4, 2, 4>>, <<4, 2, 4, 2>>>>

OverGames ==
    {[grid |-> Checkerboard, score |-> gridScore(Checkerboard),
      gameOver |-> TRUE, won |-> FALSE],
     [grid |-> CheckerboardWon, score |-> gridScore(CheckerboardWon),
      gameOver |-> TRUE, won |-> TRUE]}

InitOver ==
    /\ gameState \in OverGames
    /\ call = NoCall
    /\ ret = "none"
    /\ steps = 0
    /\ ComponentIdle
    /\ audio = NoService

SpecOver == InitOver /\ [][Next]_vars

---------------------------------------------------------------------------
(* Properties of processLine (SpecLine) *)

\* the tiles of a line, in order, without the empty cells
Tiles(line) == SelectSeq(line, LAMBDA c : c # null)

\* the ways to cut n tiles into consecutive blocks of one or two tiles
Blocks(n) == {bs \in UNION {[1..k -> {1, 2}] : k \in 0..n} : SumSeq(bs) = n}

BlockStart(bs, j) == 1 + SumSeq(SubSeq(bs, 1, j - 1))

\* out is tiles with every block of two (equal) tiles replaced by their double
PairedBy(tiles, bs, out) ==
    /\ Len(out) = Len(bs)
    /\ \A j \in 1..Len(bs) :
           LET s == BlockStart(bs, j)
           IN  IF bs[j] = 1 THEN out[j] = tiles[s]
               ELSE tiles[s] = tiles[s + 1] /\ out[j] = 2 * tiles[s]

\* a tile is left single only when it has no equal right neighbour
Greedy(tiles, bs) ==
    \A j \in 1..Len(bs) :
        LET s == BlockStart(bs, j)
        IN  bs[j] = 1 => (s = Len(tiles) \/ tiles[s] # tiles[s + 1])

RECURSIVE MergedScoreFrom(_, _, _)
MergedScoreFrom(tiles, bs, j) ==
    IF j > Len(bs) THEN 0
    ELSE (IF bs[j] = 2 THEN 2 * tiles[BlockStart(bs, j)] ELSE 0)
             + MergedScoreFrom(tiles, bs, j + 1)

MergedScore(tiles, bs) == MergedScoreFrom(tiles, bs, 1)

\* C1: processLine never cascades: its output tiles are the input tiles with
\* disjoint pairs of equal neighbours doubled, so no tile is merged twice;
\* [2,2,2,2] gives [4,4,null,null] with score 8 and [4,2,2,null] gives
\* [4,4,null,null].
C1_NoCascade ==
    ret.fn = "processLine" =>
        LET tiles == Tiles(call.line)
            out == Tiles(ret.value.newLine)
        IN  /\ \E bs \in Blocks(Len(tiles)) : PairedBy(tiles, bs, out)
            /\ call.line = <<2, 2, 2, 2>> =>
                   /\ ret.value.newLine = <<4, 4, null, null>>
                   /\ ret.value.scoreGained = 8
            /\ call.line = <<4, 2, 2, null>> =>
                   ret.value.newLine = <<4, 4, null, null>>

C1_Witness ==
    /\ ret.fn = "processLine"
    /\ call.line = <<4, 2, 2, null>>
    /\ ret.value.newLine = <<4, 4, null, null>>

\* C2: processLine pairs greedily from index 0 of the compacted line: a tile
\* merges with its right neighbour iff they are equal and it was not consumed
\* by the pair before; [2,null,2,2] gives [4,2,null,null] with score 4 and
\* [2,2,null,null] gives [4,null,null,null] with score 4.
C2_GreedyFromStart ==
    ret.fn = "processLine" =>
        LET tiles == Tiles(call.line)
            out == Tiles(ret.value.newLine)
        IN  /\ \E bs \in Blocks(Len(tiles)) :
                   /\ PairedBy(tiles, bs, out)
                   /\ Greedy(tiles, bs)
                   /\ ret.value.scoreGained = MergedScore(tiles, bs)
            /\ call.line = <<2, null, 2, 2>> =>
                   /\ ret.value.newLine = <<4, 2, null, null>>
                   /\ ret.value.scoreGained = 4
            /\ call.line = <<2, 2, null, null>> =>
                   /\ ret.value.newLine = <<4, null, null, null>>
                   /\ ret.value.scoreGained = 4
            /\ call.line = <<2, null, null, 2>> =>
                   ret.value.newLine = <<4, null, null, null>>
            /\ call.line = <<2, 4, 2, null>> =>
                   ret.value.newLine = <<2, 4, 2, null>>

C2_Witness ==
    /\ ret.fn = "processLine"
    /\ call.line = <<2, null, 2, 2>>
    /\ ret.value.newLine = <<4, 2, null, null>>
    /\ ret.value.scoreGained = 4

---------------------------------------------------------------------------
(* Properties of isGameOver and moveGrid (SpecGrid) *)

Adjacent(p, q) ==
    LET dr == IF p[1] > q[1] THEN p[1] - q[1] ELSE q[1] - p[1]
        dc == IF p[2] > q[2] THEN p[2] - q[2] ELSE q[2] - p[2]
    IN  dr + dc = 1

HasEmptyCell(grid) == \E p \in Pos : grid[p[1]][p[2]] = null

HasTile(grid) == \E p \in Pos : grid[p[1]][p[2]] # null

HasEqualNeighbours(grid) ==
    \E p \in Pos, q \in Pos : Adjacent(p, q) /\ grid[p[1]][p[2]] = grid[q[1]][q[2]]

NoMoveChanges(grid) == \A d \in Direction : ~moveGrid(grid, d).moved

\* C6 as stated: for every grid, isGameOver is true iff no direction moves.
C6_Original ==
    ret.fn = "isGameOver" => (ret.value <=> NoMoveChanges(call.grid))

\* C6: for every grid that holds at least one tile, isGameOver(grid) is true
\* iff moveGrid reports moved = false in all four directions.
C6_TerminalIffNoMove ==
    (ret.fn = "isGameOver" /\ HasTile(call.grid)) =>
        (ret.value <=> NoMoveChanges(call.grid))

C6_Witness ==
    /\ ret.fn = "isGameOver"
    /\ ret.value
    /\ NoMoveChanges(call.grid)
    /\ call.grid # Checkerboard

\* C7: isGameOver(grid) is true iff the grid has no empty cell and no two
\* horizontally or vertically neighbouring cells are equal; diagonals do not
\* count, and any empty cell makes it false.
C7_GameOverDefinition ==
    ret.fn = "isGameOver" =>
        /\ ret.value <=> (~HasEmptyCell(call.grid) /\ ~HasEqualNeighbours(call.grid))
        /\ HasEmptyCell(call.grid) => ~ret.value

\* one empty cell among tiles none of which equals a neighbour
C7_Witness ==
    /\ ret.fn = "isGameOver"
    /\ ~ret.value
    /\ Cardinality({p \in Pos : call.grid[p[1]][p[2]] = null}) = 1
    /\ \A p \in Pos, q \in Pos :
           (Adjacent(p, q) /\ call.grid[p[1]][p[2]] # null) =>
               call.grid[p[1]][p[2]] # call.grid[q[1]][q[2]]

---------------------------------------------------------------------------
(* Properties of the turn controller (Spec, SpecLate) *)

\* h is g with one tile of 2 or 4 put on an empty cell (g itself when g is full)
Spawned(g, h) ==
    IF ~HasEmptyCell(g) THEN h = g
    ELSE LET changed == {p \in Pos : h[p[1]][p[2]] # g[p[1]][p[2]]}
         IN  /\ Cardinality(changed) = 1
             /\ \A p \in changed : g[p[1]][p[2]] = null /\ h[p[1]][p[2]] \in {2, 4}

\* C3: an accepted move replaces the GameState by: grid = the moved grid plus
\* one spawned tile, score = old score + scoreGained, gameOver =
\* isGameOver(new grid), won = old won or hasWon(new grid); a move produces
\* nothing else (it leaves the GameState as it was when it is not accepted).
C3_AcceptedMoveResult ==
    [][call'.fn = "move" =>
           \A m \in {moveGrid(gameState.grid, call'.direction)} :
               IF ~gameState.gameOver /\ m.moved
               THEN /\ Spawned(m.newGrid, gameState'.grid)
                    /\ gameState'.score = gameState.score + m.scoreGained
                    /\ gameState'.gameOver = isGameOver(gameState'.grid)
                    /\ gameState'.won = (gameState.won \/ hasWon(gameState'.grid))
                    /\ DOMAIN gameState' = {"grid", "score", "gameOver", "won"}
               ELSE gameState' = gameState]_vars

C3_Witness ==
    /\ call.fn = "move"
    /\ ret = "accepted"
    /\ gameState.won
    /\ hasWon(gameState.grid)
    /\ gameState.score > gridScore(NearWin)

\* C4: once won is true it stays true across every move, also when no cell
\* equals 2048 any more.
C4_WonMonotonic ==
    [][(gameState.won /\ call'.fn = "move") => gameState'.won]_vars

\* won, after a move that merged the 2048 tiles into 4096
C4_Witness ==
    /\ call.fn = "move"
    /\ ret = "accepted"
    /\ gameState.won
    /\ ~hasWon(gameState.grid)
    /\ \E p \in Pos : gameState.grid[p[1]][p[2]] = 2 * WINNING_TILE

\* C5: while gameOver is true every move leaves grid, score, gameOver and won
\* unchanged, and only reset leaves the Over state.
C5_OverAbsorbing ==
    [][gameState.gameOver =>
           /\ call'.fn = "move" => gameState' = gameState
           /\ ~gameState'.gameOver => call'.fn = "reset"]_vars

C5_Witness ==
    /\ call.fn = "move"
    /\ ret = "over"
    /\ gameState.gameOver
    /\ steps >= 2

IsPowerOfTwo(v) == \E k \in 1..(SIZE * SIZE + 1) : v = Pow2(k)

\* C8: in every state reachable from initializeGame the grid has 4 rows of 4
\* cells and every non-empty cell is a power of two >= 2.
C8_GridWellFormed ==
    /\ DOMAIN gameState.grid = 1..SIZE
    /\ \A row \in 1..SIZE :
           /\ DOMAIN gameState.grid[row] = 1..SIZE
           /\ \A col \in 1..SIZE :
                  gameState.grid[row][col] # null => IsPowerOfTwo(gameState.grid[row][col])

\* a merge has produced a tile that no spawn can produce
C8_Witness ==
    /\ ret = "accepted"
    /\ \E p \in Pos : gameState.grid[p[1]][p[2]] >= 8

\* C9: the stored flag agrees with the detector: gameState.gameOver is true
\* iff isGameOver(gameState.grid), in initial and post-reset states too.
C9_FlagMatchesDetector ==
    gameState.gameOver <=> isGameOver(gameState.grid)

C9_Witness ==
    /\ ret = "accepted"
    /\ gameState.gameOver
    /\ ~HasEmptyCell(gameState.grid)

\* C10: a move that is not over and for which moveGrid reports moved = false
\* leaves the whole GameState unchanged.
C10_UnmovedIsNoOp ==
    [][(/\ call'.fn = "move"
        /\ ~gameState.gameOver
        /\ ~moveGrid(gameState.grid, call'.direction).moved) =>
           gameState' = gameState]_vars

C10_Witness ==
    /\ call.fn = "move"
    /\ ret = "unmoved"
    /\ ~gameState.gameOver
    /\ HasEmptyCell(gameState.grid)

---------------------------------------------------------------------------
(* Properties of moveGrid (SpecGrid) *)

Mirror(line) == <<line[4], line[3], line[2], line[1]>>

ColumnOf(grid, c) == <<grid[1][c], grid[2][c], grid[3][c], grid[4][c]>>

\* the four lines of a grid as a move in direction d reads them, each from the
\* edge the tiles travel to
LinesOf(grid, d) ==
    IF d = "left" THEN <<grid[1], grid[2], grid[3], grid[4]>>
    ELSE IF d = "right"
         THEN <<Mirror(grid[1]), Mirror(grid[2]), Mirror(grid[3]), Mirror(grid[4])>>
    ELSE IF d = "up"
         THEN <<ColumnOf(grid, 1), ColumnOf(grid, 2), ColumnOf(grid, 3), ColumnOf(grid, 4)>>
    ELSE <<Mirror(ColumnOf(grid, 1)), Mirror(ColumnOf(grid, 2)),
           Mirror(ColumnOf(grid, 3)), Mirror(ColumnOf(grid, 4))>>

PerLine(grid, d) ==
    LET ls == LinesOf(grid, d)
    IN  <<processLine(ls[1]), processLine(ls[2]), processLine(ls[3]), processLine(ls[4])>>

\* C11: moveGrid processes all four lines: every line of newGrid is
\* processLine's newLine for that line, moved is the OR of the four changed
\* flags and scoreGained is the sum of the four scoreGained, also when a
\* merging line comes after an unchanged one.
C11_AllLinesProcessed ==
    ret.fn = "moveGrid" =>
        \A rs \in {PerLine(call.grid, ret.direction)} :
            /\ ret.value.moved = (\E k \in 1..SIZE : rs[k].changed)
            /\ ret.value.scoreGained =
                   rs[1].scoreGained + rs[2].scoreGained
                       + rs[3].scoreGained + rs[4].scoreGained
            /\ \A k \in 1..SIZE :
                   LinesOf(ret.value.newGrid, ret.direction)[k] = rs[k].newLine

\* a line that merges after an earlier line that did not change
C11_Witness ==
    /\ ret.fn = "moveGrid"
    /\ ret.value.scoreGained > 0
    /\ \A rs \in {PerLine(call.grid, ret.direction)} :
           \E k \in 1..SIZE, j \in 1..SIZE :
               k < j /\ ~rs[k].changed /\ rs[j].scoreGained > 0

MirrorGrid(grid) == <<Mirror(grid[1]), Mirror(grid[2]), Mirror(grid[3]), Mirror(grid[4])>>

Transpose(grid) ==
    <<ColumnOf(grid, 1), ColumnOf(grid, 2), ColumnOf(grid, 3), ColumnOf(grid, 4)>>

\* C12: moveGrid(grid, 'right') is moveGrid(mirror(grid), 'left') mirrored
\* back, with the same moved and scoreGained: rows are packed toward the
\* highest column and paired from the right edge, so a row [2,2,2,null]
\* becomes [null,null,2,4].
C12_RightIsMirroredLeft ==
    (ret.fn = "moveGrid" /\ ret.direction = "right") =>
        \A l \in {moveGrid(MirrorGrid(call.grid), "left")} :
            /\ ret.value.newGrid = MirrorGrid(l.newGrid)
            /\ ret.value.moved = l.moved
            /\ ret.value.scoreGained = l.scoreGained
            /\ \A row \in 1..SIZE :
                   call.grid[row] = <<2, 2, 2, null>> =>
                       ret.value.newGrid[row] = <<null, null, 2, 4>>

C12_Witness ==
    /\ ret.fn = "moveGrid"
    /\ ret.direction = "right"
    /\ call.grid[1] = <<2, 2, 2, null>>
    /\ ret.value.newGrid[1] = <<null, null, 2, 4>>
    /\ ret.value.scoreGained = 4

\* C13: moveGrid 'up' is 'left' on the transposed grid, transposed back, and
\* 'down' is 'right' on the transposed grid, transposed back, with the same
\* moved and scoreGained: every column is processed as a row would be and no
\* column's processing touches another column.
C13_ColumnsAsRows ==
    (ret.fn = "moveGrid" /\ ret.direction \in {"up", "down"}) =>
        \A t \in {moveGrid(Transpose(call.grid),
                           IF ret.direction = "up" THEN "left" ELSE "right")} :
            /\ ret.value.newGrid = Transpose(t.newGrid)
            /\ ret.value.moved = t.moved
            /\ ret.value.scoreGained = t.scoreGained

\* 'down' merges one column from the bottom edge and leaves the others alone
C13_Witness ==
    /\ ret.fn = "moveGrid"
    /\ ret.direction = "down"
    /\ ColumnOf(call.grid, 1) = <<2, 2, 2, null>>
    /\ ColumnOf(ret.value.newGrid, 1) = <<null, null, 2, 4>>
    /\ \A c \in 2..SIZE : ColumnOf(ret.value.newGrid, c) = ColumnOf(call.grid, c)
    /\ ColumnOf(call.grid, 2) = <<4, 2, 4, 2>>

---------------------------------------------------------------------------
(* Further properties of processLine (SpecLine) *)

\* no empty cell comes before a tile
TilesFormPrefix(line) ==
    \A i \in 1..Len(line), j \in 1..Len(line) :
        (i < j /\ line[i] = null) => line[j] = null

\* C14: processLine's newLine has exactly 4 cells, its tiles form a prefix
\* (padding on the right), and they are the input's tiles in their order with
\* each merged pair replaced by one tile of double value.
C14_CompactedInOrder ==
    ret.fn = "processLine" =>
        /\ Len(ret.value.newLine) = SIZE
        /\ DOMAIN ret.value.newLine = 1..SIZE
        /\ TilesFormPrefix(ret.value.newLine)
        /\ \E bs \in Blocks(Len(Tiles(call.line))) :
               PairedBy(Tiles(call.line), bs, Tiles(ret.value.newLine))
        /\ Len(Tiles(ret.value.newLine)) <= Len(Tiles(call.line))

C14_Witness ==
    /\ ret.fn = "processLine"
    /\ call.line = <<null, 2, null, 4>>
    /\ ret.value.newLine = <<2, 4, null, null>>

\* the sum of the tiles of out that stand for a block of two
RECURSIVE CreatedSum(_, _, _)
CreatedSum(out, bs, j) ==
    IF j > Len(bs) THEN 0
    ELSE (IF bs[j] = 2 THEN out[j] ELSE 0) + CreatedSum(out, bs, j + 1)

\* C15: scoreGained is the sum of the values of the tiles created by merges
\* (2v once for each merge of two tiles v), and 0 when nothing merges, as for
\* an all-empty line.
C15_ScoreIsCreatedTiles ==
    ret.fn = "processLine" =>
        LET tiles == Tiles(call.line)
            out == Tiles(ret.value.newLine)
        IN  /\ \A bs \in Blocks(Len(tiles)) :
                   PairedBy(tiles, bs, out) =>
                       ret.value.scoreGained = CreatedSum(out, bs, 1)
            /\ Len(out) = Len(tiles) => ret.value.scoreGained = 0
            /\ tiles = <<>> => ret.value.scoreGained = 0
            /\ call.line = <<2, 2, 4, 4>> => ret.value.scoreGained = 12

C15_Witness ==
    /\ ret.fn = "processLine"
    /\ call.line = <<2, 2, 4, 4>>
    /\ ret.value.newLine = <<4, 8, null, null>>
    /\ ret.value.scoreGained = 12

\* C16: changed is true iff newLine differs from the input at some position:
\* a slide without a merge is changed, a merge is changed, a compacted line
\* with no mergeable pair and the all-empty line are not.
C16_ChangedIffDiffers ==
    ret.fn = "processLine" =>
        /\ ret.value.changed <=>
               (\E i \in 1..SIZE : ret.value.newLine[i] # call.line[i])
        /\ call.line = <<null, 2, null, null>> => ret.value.changed
        /\ call.line = <<2, 2, null, null>> => ret.value.changed
        /\ call.line = <<2, 4, null, null>> => ~ret.value.changed
        /\ call.line = <<null, null, null, null>> => ~ret.value.changed

\* a slide without a merge
C16_Witness ==
    /\ ret.fn = "processLine"
    /\ call.line = <<null, 2, null, null>>
    /\ ret.value.newLine = <<2, null, null, null>>
    /\ ret.value.scoreGained = 0
    /\ ret.value.changed

NoAdjacentEqualTiles(line) ==
    \A i \in 1..(Len(line) - 1) : line[i] # null => line[i] # line[i + 1]

\* C17: on a line whose tiles form a prefix with no two adjacent equal tiles
\* processLine returns the same line with changed = false and scoreGained =
\* 0, and processLine of that result again has changed = false.
C17_IdempotentOnCompacted ==
    (/\ ret.fn = "processLine"
     /\ TilesFormPrefix(call.line)
     /\ NoAdjacentEqualTiles(call.line)) =>
        /\ ret.value.newLine = call.line
        /\ ~ret.value.changed
        /\ ret.value.scoreGained = 0
        /\ \A again \in {processLine(ret.value.newLine)} :
               /\ ~again.changed
               /\ again.newLine = call.line
               /\ again.scoreGained = 0

C17_Witness ==
    /\ ret.fn = "processLine"
    /\ call.line = <<2, 4, 2, null>>
    /\ ret.value.newLine = <<2, 4, 2, null>>
    /\ ~ret.value.changed

---------------------------------------------------------------------------
(* Properties of addRandomTile (SpecTile) *)

Differing(g, h) == {p \in Pos : h[p[1]][p[2]] # g[p[1]][p[2]]}

\* C18: on a grid with an empty cell addRandomTile returns a grid that
\* differs from its argument at exactly one position, which was empty and now
\* holds 2 or 4; every other cell is unchanged, whatever the two draws.
C18_OneTileOnEmptyCell ==
    (ret.fn = "addRandomTile" /\ HasEmptyCell(ret.grid)) =>
        /\ Cardinality(Differing(ret.grid, ret.value)) = 1
        /\ \A p \in Differing(ret.grid, ret.value) :
               /\ ret.grid[p[1]][p[2]] = null
               /\ ret.value[p[1]][p[2]] \in {2, 4}
        /\ DOMAIN ret.value = 1..SIZE
        /\ \A row \in 1..SIZE : DOMAIN ret.value[row] = 1..SIZE

\* the last of several empty cells was drawn, and a 4
C18_Witness ==
    /\ ret.fn = "addRandomTile"
    /\ ret.rPos = 999
    /\ ret.rVal = 999
    /\ Cardinality({p \in Pos : ret.grid[p[1]][p[2]] = null}) >= 2
    /\ \E p \in Pos : ret.grid[p[1]][p[2]] = null /\ ret.value[p[1]][p[2]] = 4
    /\ ret.grid[1][1] # null

\* C19: on a full grid addRandomTile returns a grid equal cell for cell to
\* its argument, and so does every further application to that result.
C19_FullGridUnchanged ==
    (ret.fn = "addRandomTile" /\ ~HasEmptyCell(call.grid)) =>
        /\ ret.grid = call.grid
        /\ ret.value = call.grid
        /\ \A p \in Pos : ret.value[p[1]][p[2]] = call.grid[p[1]][p[2]]

C19_Witness ==
    /\ ret.fn = "addRandomTile"
    /\ steps >= 2
    /\ ~HasEmptyCell(call.grid)
    /\ call.grid[1][1] = 4
    /\ ret.value = call.grid

---------------------------------------------------------------------------
(* The number of tiles across a turn (SpecLate) *)

TileCount(grid) == Cardinality({p \in Pos : grid[p[1]][p[2]] # null})

\* the pairs of equal neighbours met scanning the tiles from the front, a
\* paired tile not being paired again
RECURSIVE PairCount(_)
PairCount(tiles) ==
    IF Len(tiles) < 2 THEN 0
    ELSE IF tiles[1] = tiles[2] THEN 1 + PairCount(SubSeq(tiles, 3, Len(tiles)))
    ELSE PairCount(Tail(tiles))

\* the merges of a move of grid in direction d
MergeCount(grid, d) ==
    LET ls == LinesOf(grid, d)
    IN  PairCount(Tiles(ls[1])) + PairCount(Tiles(ls[2]))
            + PairCount(Tiles(ls[3])) + PairCount(Tiles(ls[4]))

\* C20: moveGrid never increases the number of non-empty cells, it lowers it
\* by exactly the number of merges; an accepted move changes the number of
\* non-empty cells of gameState.grid by exactly 1 minus the number of merges,
\* so by at most +1, and a move that is not accepted leaves it alone.
C20_TileCount ==
    [][call'.fn = "move" =>
           \A m \in {moveGrid(gameState.grid, call'.direction)} :
               \A merges \in {MergeCount(gameState.grid, call'.direction)} :
                   /\ TileCount(m.newGrid) = TileCount(gameState.grid) - merges
                   /\ TileCount(m.newGrid) <= TileCount(gameState.grid)
                   /\ IF ~gameState.gameOver /\ m.moved
                      THEN /\ TileCount(gameState'.grid)
                                  = TileCount(gameState.grid) + 1 - merges
                           /\ TileCount(gameState'.grid) <= TileCount(gameState.grid) + 1
                      ELSE TileCount(gameState'.grid) = TileCount(gameState.grid)]_vars

\* seven tiles, two merges and one spawn: six tiles
C20_Witness ==
    /\ call.fn = "move"
    /\ ret = "accepted"
    /\ steps = 1
    /\ gameState.grid[1][1] = WINNING_TILE
    /\ gameState.grid[1][2] = WINNING_TILE
    /\ TileCount(gameState.grid) = TileCount(NearWin) - 1

---------------------------------------------------------------------------
(* Properties of reset and initializeGame (SpecOver, Spec) *)

\* a freshly initialized GameState: nothing but the seeded tiles
FreshlyInitialized(gs) ==
    /\ gs.score = 0
    /\ ~gs.gameOver
    /\ ~gs.won
    /\ TileCount(gs.grid) = INITIAL_TILES
    /\ \A p \in Pos : gs.grid[p[1]][p[2]] \in {null, 2, 4}

\* C21: reset is unconditional: it can be called in every state, also with
\* gameOver or won true, and it replaces the GameState by a freshly
\* initialized one, from which a move is accepted again.
C21_ResetUnconditional ==
    /\ [](steps < MaxSteps => ENABLED Reset)
    /\ [][call'.fn = "reset" =>
              /\ FreshlyInitialized(gameState')
              /\ \E d \in Direction : movePath(gameState', d) = "accepted"]_vars

\* a reset as the first operation on a finished game, then an accepted move
C21_Witness ==
    /\ steps = 2
    /\ call.fn = "move"
    /\ ret = "accepted"
    /\ ~gameState.gameOver
    /\ ~gameState.won
    /\ TileCount(gameState.grid) <= INITIAL_TILES + 1
    /\ gameState.score <= 8

\* C22: initializeGame always returns score 0, gameOver false, won false and
\* a grid with exactly INITIAL_TILES = 2 non-empty cells, each 2 or 4, at two
\* distinct positions, the other 14 cells empty.
C22_InitialState ==
    call.fn \in {"none", "reset"} =>
        /\ gameState.score = 0
        /\ gameState.gameOver = FALSE
        /\ gameState.won = FALSE
        /\ Cardinality({p \in Pos : gameState.grid[p[1]][p[2]] \in {2, 4}}) = 2
        /\ Cardinality({p \in Pos : gameState.grid[p[1]][p[2]] = null}) = SIZE * SIZE - 2
        /\ DOMAIN gameState = {"grid", "score", "gameOver", "won"}

\* both position draws fell on index 0: the second tile went to the next cell
C22_Witness ==
    /\ call.fn = "reset"
    /\ gameState.grid[1][1] = 4
    /\ gameState.grid[1][2] = 2
    /\ TileCount(gameState.grid) = 2

---------------------------------------------------------------------------
(* Properties of hasWon (SpecWon) *)

\* C23: hasWon(grid) is true iff at least one cell equals exactly 2048; a
\* grid with tiles of 4096 or more and no 2048 cell gives false.
C23_HasWonExactly ==
    ret.fn = "hasWon" =>
        /\ ret.value <=> Cardinality({p \in Pos : call.grid[p[1]][p[2]] = 2048}) >= 1
        /\ (/\ \E p \in Pos : call.grid[p[1]][p[2]] >= 4096
            /\ \A p \in Pos : call.grid[p[1]][p[2]] # 2048) => ret.value = FALSE

C23_Witness ==
    /\ ret.fn = "hasWon"
    /\ ret.value = FALSE
    /\ \E p \in Pos : call.grid[p[1]][p[2]] = 4096
    /\ \A p \in Pos : call.grid[p[1]][p[2]] # 2048

---------------------------------------------------------------------------
(* moveGrid on a direction outside the enumeration (SpecGridAny) *)

\* C28: moveGrid called with a direction outside {up, down, left, right}
\* signals an invalid argument instead of returning a result: it does not
\* return the grid unchanged with moved = false.
C28_FailsFast ==
    (ret.fn = "moveGrid" /\ ret.direction \notin Direction) =>
        /\ DOMAIN ret.value # {"newGrid", "moved", "scoreGained"}
        /\ ~(ret.value.newGrid = call.grid /\ ret.value.moved = FALSE)

---------------------------------------------------------------------------
(* The round trip right, left (SpecRound) *)

\* no move of the grid merges anything
NoMergePossible(grid) == \A d \in Direction : MergeCount(grid, d) = 0

\* C29 as stated: on a grid with no merge possible, after 'right' the call
\* for 'left' is a no-op (changed = false, line unchanged) on every line that
\* was fully compacted left.
C29_Original ==
    (ret.fn = "moveGridAgain" /\ NoMergePossible(call.grid)) =>
        \A row \in 1..SIZE :
            TilesFormPrefix(call.grid[row]) =>
                /\ ~processLine(ret.first.newGrid[row]).changed
                /\ ret.value.newGrid[row] = ret.first.newGrid[row]

\* C29: on a grid with no merge possible, 'right' then 'left' gives every
\* line that was fully compacted left back as it was; the call for 'left'
\* itself changes such a line unless the line is empty or full, and a third
\* call for 'left' changes nothing.
C29_RoundTripRestores ==
    (ret.fn = "moveGridAgain" /\ NoMergePossible(call.grid)) =>
        /\ ret.value.scoreGained = 0
        /\ \A row \in 1..SIZE :
               TilesFormPrefix(call.grid[row]) =>
                   /\ ret.value.newGrid[row] = call.grid[row]
                   /\ processLine(ret.first.newGrid[row]).changed
                          <=> Len(Tiles(call.grid[row])) \in 1..(SIZE - 1)
                   /\ ~processLine(ret.value.newGrid[row]).changed

\* a row [2,4,null,null] went to the right edge and came back
C29_Witness ==
    /\ ret.fn = "moveGridAgain"
    /\ NoMergePossible(call.grid)
    /\ \E row \in 1..SIZE :
           /\ call.grid[row] = <<2, 4, null, null>>
           /\ ret.first.newGrid[row] = <<null, null, 2, 4>>
           /\ ret.value.newGrid[row] = <<2, 4, null, null>>
    /\ ret.value.moved

---------------------------------------------------------------------------
(* Properties of getEmptyCells (SpecCells) *)

\* the place of a position in the row-major order
RowMajor(p) == (p[1] - 1) * SIZE + p[2]

\* C30: getEmptyCells returns exactly the coordinates of the empty cells,
\* each once, in row-major ascending order, and the spawner's index into that
\* list names the cell that receives the tile.
C30_EmptyCellsRowMajor ==
    ret.fn = "getEmptyCells" =>
        LET empties == {p \in Pos : call.grid[p[1]][p[2]] = null}
            n == Len(ret.value)
        IN  /\ {ret.value[i] : i \in 1..n} = empties
            /\ n = Cardinality(empties)
            /\ \A i \in 1..n, j \in 1..n :
                   i < j => RowMajor(ret.value[i]) < RowMajor(ret.value[j])
            /\ \A rPos \in Draws :
                   n > 0 =>
                       LET cell == ret.value[((rPos * n) \div 1000) + 1]
                       IN  addRandomTile(call.grid, rPos, 0)[cell[1]][cell[2]] = 2

\* the last cell of row 1 comes before the first cell of row 2
C30_Witness ==
    /\ ret.fn = "getEmptyCells"
    /\ ret.value = << <<1, 4>>, <<2, 1>> >>

---------------------------------------------------------------------------
(* The argument grid is left alone (SpecHeap) *)

\* what the call returns, as the pure function computes it
PureResult ==
    IF ret.fn = "moveGrid"
    THEN moveGrid(deref(call.heap, call.grid), ret.direction).newGrid
    ELSE addRandomTile(deref(call.heap, call.grid), ret.rPos, ret.rVal)

\* C24: moveGrid and addRandomTile never mutate the grid they are given:
\* after the call the argument grid and each of its rows hold the values they
\* held before, for every direction and every draw; the changes are in the
\* returned grid, which shares no array with the argument.
C24_ArgumentNotMutated ==
    ret.fn \in {"moveGrid", "addRandomTile"} =>
        /\ \A a \in 1..Len(call.heap) : ret.value.heap[a] = call.heap[a]
        /\ deref(ret.value.heap, call.grid) = deref(call.heap, call.grid)
        /\ ret.value.newGrid > Len(call.heap)
        /\ \A row \in 1..SIZE : ret.value.heap[ret.value.newGrid][row] > Len(call.heap)
        /\ deref(ret.value.heap, ret.value.newGrid) = PureResult

\* a move along the columns that changed the returned grid
C24_Witness ==
    /\ ret.fn = "moveGrid"
    /\ ret.direction = "down"
    /\ ret.value.moved
    /\ ret.value.scoreGained > 0
    /\ deref(ret.value.heap, ret.value.newGrid) # deref(call.heap, call.grid)
    /\ deref(ret.value.heap, call.grid) = deref(call.heap, call.grid)

---------------------------------------------------------------------------
(* The Game2048 component around the hook: keyboard and touch input,
   the New Game button, React's commits and the notification effect (SpecGame) *)

SWIPE_THRESHOLD == 50

KEYBOARD_ENABLED == TRUE

TOUCH_ENABLED == TRUE

\* the four arrow keys and one key the listener ignores
Keys == {"ArrowUp", "ArrowDown", "ArrowLeft", "ArrowRight", "Enter"}

\* the switch of handleKeyDown; "none" is its default branch
keyDirection(key) ==
    CASE key = "ArrowUp" -> "up"
      [] key = "ArrowDown" -> "down"
      [] key = "ArrowLeft" -> "left"
      [] key = "ArrowRight" -> "right"
      [] OTHER -> "none"

Abs(x) == IF x < 0 THEN -x ELSE x

\* the direction handleTouchEnd hands to onMove, "none" when the swipe is
\* too short
swipeDirection(start, end) ==
    LET deltaX == end[1] - start[1]
        deltaY == end[2] - start[2]
    IN  IF Abs(deltaX) > Abs(deltaY)
        THEN IF deltaX > SWIPE_THRESHOLD THEN "right"
             ELSE IF deltaX < -SWIPE_THRESHOLD THEN "left"
             ELSE "none"
        ELSE IF deltaY > SWIPE_THRESHOLD THEN "down"
             ELSE IF deltaY < -SWIPE_THRESHOLD THEN "up"
             ELSE "none"

\* how many onMove and New Game calls a run of the component makes
MaxInputs == 2

\* clientX, clientY of the touches used
TouchPoints == {<<0, 0>>, <<60, 0>>, <<0, 60>>}

\* the notification effect: it runs when one of its dependencies won,
\* gameOver, score differs from the previous commit, and then shows a toast
\* for every flag that is true
toastEffect(shown, previous, gs) ==
    IF <<gs.won, gs.gameOver, gs.score>> =
       <<previous.won, previous.gameOver, previous.score>>
    THEN shown
    ELSE [win |-> shown.win + (IF gs.won THEN 1 ELSE 0),
          over |-> shown.over + (IF gs.gameOver THEN 1 ELSE 0)]

\* enabled as the last commit passed it to useInputHandlers
enabled == ~rendered.gameOver

\* React renders Game2048 with the current state and runs its effects
Commit ==
    /\ rendered' = gameState'
    /\ toasts' = toastEffect(toasts, rendered, gameState')

\* onMove(direction): handleMove calls the move of the last commit, which
\* computes from the gameState that commit saw and calls setGameState only
\* for an accepted move
OnMove(direction) ==
    /\ IF direction # "none" /\ movePath(rendered, direction) = "accepted"
       THEN \E rPos \in Draws, rVal \in ValueDraws :
                gameState' = move(rendered, direction, rPos, rVal)
       ELSE UNCHANGED gameState
    /\ steps' = IF direction = "none" THEN steps ELSE steps + 1

InitGame ==
    /\ gameState \in LateGames
    /\ call = NoCall
    /\ ret = "none"
    /\ steps = 0
    /\ ComponentIdle
    /\ audio = NoService

\* a keydown event on window; the listener is attached only while enabled
KeyDown(key) ==
    /\ steps < MaxInputs
    /\ LET direction == IF enabled /\ KEYBOARD_ENABLED THEN keyDirection(key)
                        ELSE "none"
       IN  /\ OnMove(direction)
           /\ call' = [fn |-> "keydown", key |-> key]
           /\ ret' = [enabled |-> enabled, onMove |-> direction]
    /\ UNCHANGED <<componentVars, audio>>

\* handleTouchStart and the commit of its state update
TouchStart(point) ==
    /\ TOUCH_ENABLED
    /\ touch' = [touch EXCEPT !.start = point]
    /\ call' = [fn |-> "touchstart"]
    /\ ret' = [enabled |-> enabled, onMove |-> "none"]
    /\ UNCHANGED <<gameState, steps, audio>>
    /\ Commit

\* handleTouchMove and the commit of its state update; the browser sends
\* touchmove only for a touch that started on the grid
TouchMove(point) ==
    /\ TOUCH_ENABLED
    /\ touch.start # NoPoint
    /\ touch' = [touch EXCEPT !.end = point]
    /\ call' = [fn |-> "touchmove"]
    /\ ret' = [enabled |-> enabled, onMove |-> "none"]
    /\ UNCHANGED <<gameState, steps, audio>>
    /\ Commit

\* handleTouchEnd and the commit of its state updates
TouchEnd ==
    /\ steps < MaxInputs
    /\ LET complete == TOUCH_ENABLED /\ touch.start # NoPoint /\ touch.end # NoPoint
           direction == IF complete THEN swipeDirection(touch.start, touch.end)
                        ELSE "none"
       IN  /\ OnMove(direction)
           /\ touch' = IF complete THEN NoTouch ELSE touch
           /\ call' = [fn |-> "touchend"]
           /\ ret' = [enabled |-> enabled, onMove |-> direction]
    /\ UNCHANGED audio
    /\ Commit

\* handleNewGame, the New Game button
NewGame ==
    /\ steps < MaxInputs
    /\ gameState' \in ResetGames
    /\ call' = [fn |-> "newGame"]
    /\ ret' = [enabled |-> enabled, onMove |-> "none"]
    /\ steps' = steps + 1
    /\ UNCHANGED <<componentVars, audio>>

\* React commits a pending gameState
Render ==
    /\ rendered # gameState
    /\ call' = [fn |-> "render"]
    /\ ret' = [enabled |-> enabled, onMove |-> "none"]
    /\ UNCHANGED <<gameState, steps, touch, audio>>
    /\ Commit

NextGame ==
    \/ \E key \in Keys : KeyDown(key)
    \/ \E point \in TouchPoints : TouchStart(point)
    \/ \E point \in TouchPoints : TouchMove(point)
    \/ TouchEnd
    \/ NewGame
    \/ Render

SpecGame == InitGame /\ [][NextGame]_vars

---------------------------------------------------------------------------
(* Claims about the component (SpecGame) *)

\* C25: moves are applied one at a time in arrival order: every onMove
\* call, also one made before the component has re-rendered after the
\* previous one, leaves the GameState that move gives on the current
\* GameState, so no move is computed from a stale snapshot and no accepted
\* move's grid, score or spawned tile is lost.
C25_MovesAppliedInOrder ==
    [][(call'.fn \in {"keydown", "touchend"} /\ ret'.onMove \in Direction) =>
          \E rPos \in Draws, rVal \in ValueDraws :
              gameState' = move(gameState, ret'.onMove, rPos, rVal)]_vars

\* C26: with enabled = false neither an arrow-key press nor a completed
\* swipe invokes onMove.
C26_DisabledInputSuppressed ==
    (call.fn \in {"keydown", "touchend"} /\ ~ret.enabled) => ret.onMove = "none"

\* C27: the win toast is shown exactly on the commit where won turns true
\* and the game-over toast exactly on the commit where gameOver turns true;
\* no other step shows either.
C27_ToastsOnEdgesOnly ==
    [][/\ toasts'.win - toasts.win = (IF ~rendered.won /\ rendered'.won THEN 1 ELSE 0)
       /\ toasts'.over - toasts.over =
              (IF ~rendered.gameOver /\ rendered'.gameOver THEN 1 ELSE 0)]_vars

---------------------------------------------------------------------------
(* The randomness source of the Tile Spawner (SpecTile) *)

\* C31: the randomness of addRandomTile is injected: the grid it returns is
\* determined by what the caller passes in, so two calls given the same
\* arguments return the same grid.  The only parameter of addRandomTile is
\* the grid; the values of Math.random() are not the caller's to give.
C31_ResultDeterminedByArguments ==
    ret.fn = "addRandomTile" =>
        \A rPos \in Draws, rVal \in ValueDraws :
            ret.value = addRandomTile(ret.grid, rPos, rVal)

---------------------------------------------------------------------------
(* One move made on an enumerated grid *)

\* a game in progress on the grid
Playing(grid) == [grid |-> grid, score |-> 0, gameOver |-> FALSE, won |-> FALSE]

\* the checkerboards with cells emptied, and the grids one cell away from the
\* full and the empty grid
MoveGrids == Holed(MaxHoles) \cup Edited(1)

InitMove ==
    /\ gameState \in {Playing(grid) : grid \in MoveGrids}
    /\ call = NoCall
    /\ ret = NoReturn
    /\ steps = 0
    /\ ComponentIdle
    /\ audio = NoService

\* move(direction), keeping what its call of moveGrid returned
MoveOnce(direction) ==
    /\ steps = 0
    /\ \E m \in {moveGrid(gameState.grid, direction)} :
           /\ \E rPos \in (IF m.moved THEN Draws ELSE {0}),
                 rVal \in (IF m.moved THEN ValueDraws ELSE {0}) :
                  gameState' = move(gameState, direction, rPos, rVal)
           /\ ret' = [fn |-> "move", direction |-> direction, value |-> m]
    /\ call' = [fn |-> "move", direction |-> direction, grid |-> gameState.grid]
    /\ steps' = steps + 1
    /\ rendered' = gameState'
    /\ UNCHANGED <<touch, toasts, audio>>

NextMove == \E direction \in Direction : MoveOnce(direction)

SpecMove == InitMove /\ [][NextMove]_vars

---------------------------------------------------------------------------
(* A moved grid has room for the new tile (SpecMove) *)

\* C32: whenever moveGrid reports moved=true the returned grid has at least
\* one empty cell, so an accepted move spawns exactly one new tile: the grid
\* move stores has one tile more than the moved grid, whatever the draws, and
\* addRandomTile's full-grid branch, which returns its argument, is not
\* taken.
C32_MovedGridHasRoom ==
    (ret.fn = "move" /\ ret.value.moved) =>
        /\ HasEmptyCell(ret.value.newGrid)
        /\ Len(getEmptyCells(ret.value.newGrid)) > 0
        /\ TileCount(gameState.grid) = TileCount(ret.value.newGrid) + 1
        /\ gameState.grid # ret.value.newGrid

\* a full grid whose move merges one pair and leaves a single empty cell
C32_Witness ==
    /\ ret.fn = "move"
    /\ ret.value.moved
    /\ ~HasEmptyCell(call.grid)
    /\ TileCount(ret.value.newGrid) = SIZE * SIZE - 1

---------------------------------------------------------------------------
(* The sum of the tiles (SpecMove) *)

\* the sum of all tile values of a grid, an empty cell counting 0
RECURSIVE GridSum(_)
GridSum(grid) == IF grid = <<>> THEN 0 ELSE SumSeq(Head(grid)) + GridSum(Tail(grid))

\* C33: moveGrid conserves the sum of the tile values for every grid and
\* direction; an accepted move raises the sum of the stored grid by exactly
\* the value of the spawned tile, 2 or 4, put on a cell that was empty in the
\* moved grid, and a rejected move leaves the state as it was.
C33_TileSumConserved ==
    ret.fn = "move" =>
        /\ GridSum(ret.value.newGrid) = GridSum(call.grid)
        /\ \A gained \in {GridSum(gameState.grid) - GridSum(call.grid)} :
               IF ret.value.moved
               THEN /\ gained \in {2, 4}
                    /\ \A p \in Differing(ret.value.newGrid, gameState.grid) :
                           /\ ret.value.newGrid[p[1]][p[2]] = null
                           /\ gameState.grid[p[1]][p[2]] = gained
               ELSE gained = 0 /\ gameState = Playing(call.grid)

\* a move that merged two pairs and slid a tile
C33_Witness ==
    /\ ret.fn = "move"
    /\ ret.value.moved
    /\ ret.value.scoreGained > 0
    /\ TileCount(ret.value.newGrid) = TileCount(call.grid) - 2
    /\ GridSum(call.grid) > 0

---------------------------------------------------------------------------
(* moved tells whether the grid changed (SpecMove) *)

\* C34: for every grid and each of the four directions moveGrid reports
\* moved=false if and only if newGrid equals the input grid cell for cell; in
\* particular scoreGained > 0 implies moved = true.
C34_MovedIffGridDiffers ==
    ret.fn = "move" =>
        /\ ~ret.value.moved <=>
               \A p \in Pos : ret.value.newGrid[p[1]][p[2]] = call.grid[p[1]][p[2]]
        /\ ret.value.scoreGained > 0 => ret.value.moved

\* a move up that only slid tiles: it scored nothing and changed the grid
C34_Witness ==
    /\ ret.fn = "move"
    /\ ret.direction = "up"
    /\ ret.value.moved
    /\ ret.value.scoreGained = 0
    /\ ret.value.newGrid # call.grid

---------------------------------------------------------------------------
(* won is raised with the 2048 tile (SpecLate) *)

\* C35: in every reachable GameState, if the grid contains a cell equal to
\* 2048 then won is true: the flag is raised in the very state in which the
\* tile first appears.
C35_WonWith2048 ==
    (\E p \in Pos : gameState.grid[p[1]][p[2]] = WINNING_TILE) => gameState.won

\* the state stored by the move that merged two 1024 tiles
C35_Witness ==
    /\ call.fn = "move"
    /\ ret = "accepted"
    /\ steps = 1
    /\ \E p \in Pos : gameState.grid[p[1]][p[2]] = WINNING_TILE
    /\ gameState.won

---------------------------------------------------------------------------
(* The score (Spec) *)

\* C36: the score is 0 after initialization and after reset, never decreases
\* across move calls, changes only on an accepted move that merges at least
\* one pair, and is always a multiple of 4.
C36_ScoreDiscipline ==
    /\ gameState.score = 0
    /\ [][/\ gameState'.score % 4 = 0
          /\ call'.fn = "reset" => gameState'.score = 0
          /\ call'.fn = "move" =>
                 /\ gameState'.score >= gameState.score
                 /\ gameState'.score # gameState.score =>
                        /\ ret' = "accepted"
                        /\ MergeCount(gameState.grid, call'.direction) > 0]_vars

\* a score made by a merge
C36_Witness ==
    /\ call.fn = "move"
    /\ ret = "accepted"
    /\ gameState.score > 0

---------------------------------------------------------------------------
(* A game played to its end: the player makes a board-changing move as long
   as there is one (SpecEnd) *)

\* the longest game followed
MaxPlay == 30

\* three empty cells among tiles that cannot merge with one another
NearEnd == <<<<null, null, 64, 128>>,
             <<null, 256, 512, 1024>>,
             <<4096, 8192, 16384, 32768>>,
             <<65536, 2048, 32, 16>>>>

\* the directions in which move would be accepted
Movable(gs) == {direction \in Direction : movePath(gs, direction) = "accepted"}

InitEnd ==
    /\ gameState = [grid |-> NearEnd, score |-> gridScore(NearEnd),
                    gameOver |-> FALSE, won |-> TRUE]
    /\ call = NoCall
    /\ ret = [path |-> "none", movable |-> Movable(gameState)]
    /\ steps = 0
    /\ ComponentIdle
    /\ audio = NoService

\* move(direction) for a direction that changes the board
Play(direction) ==
    /\ steps < MaxPlay
    /\ direction \in ret.movable
    /\ \E rPos \in Draws, rVal \in ValueDraws :
           gameState' = move(gameState, direction, rPos, rVal)
    /\ call' = [fn |-> "move", direction |-> direction]
    /\ ret' = [path |-> movePath(gameState, direction), movable |-> Movable(gameState')]
    /\ steps' = steps + 1
    /\ rendered' = gameState'
    /\ UNCHANGED <<touch, toasts, audio>>

NextEnd == \E direction \in Direction : Play(direction)

\* the player's next move, whichever it is
Progress ==
    /\ steps < MaxPlay
    /\ ret.movable # {}
    /\ steps' = steps + 1

\* the player keeps moving while a board-changing move exists
SpecEnd == InitEnd /\ [][NextEnd]_vars /\ WF_steps(Progress)

\* the largest tile a board of SIZE x SIZE cells can hold
MaxTile == Pow2(SIZE * SIZE + 1)

\* C37: every game terminates: a player who keeps making a board-changing
\* move whenever one exists reaches gameOver; there is no endless run of
\* accepted moves, because each accepted move strictly increases the tile
\* sum, which the board bounds.
C37_GameTerminates ==
    /\ <>gameState.gameOver
    /\ [](GridSum(gameState.grid) <= SIZE * SIZE * MaxTile)
    /\ [][ret'.path = "accepted" =>
              GridSum(gameState'.grid) > GridSum(gameState.grid)]_vars

\* a game that ended after several accepted moves
C37_Witness ==
    /\ gameState.gameOver
    /\ ret.path = "accepted"
    /\ ret.movable = {}
    /\ steps >= 5

---------------------------------------------------------------------------
(* Swipes and taps (SpecGame) *)

\* C39: a touchend triggers a move only from positions of the same gesture:
\* a touchstart followed directly by touchend, with no touchmove after that
\* touchstart, is a tap and never invokes onMove, whatever touch events came
\* before it.
C39_TapNeverMoves ==
    [][(call.fn = "touchstart" /\ call'.fn = "touchend") =>
           ret'.onMove = "none"]_vars

---------------------------------------------------------------------------
(* services/AudioService.ts: loading the music, its timers and destroy
   (SpecAudio) *)

\* the blob URL of the music file
AUDIO_PATH == "blob"

FALLBACK_AUDIO_PATH == "/audio/tree-of-life.mp3"

\* resumeLoading timers pending at one time
MaxResume == 2

\* the events of the audio element that have a listener changing the service
\* or are only logged (loadedmetadata)
MediaEvents ==
    {"canplay", "canplaythrough", "loadeddata", "loadedmetadata",
     "suspend", "stalled", "error"}

handleLoadSuccess(s) ==
    IF ~s.isLoaded
    THEN [s EXCEPT !.isLoaded = TRUE,
                   !.timers.primary = IF s.loadingTimeout # "null" THEN FALSE ELSE @,
                   !.loadingTimeout = "null"]
    ELSE s

\* tryFallbackAudio giving up when the fallback is already the source
tryFallbackAudioOnce(s) ==
    IF s.audio = "null" \/ s.isLoaded THEN s
    ELSE IF s.currentAudioSrc # FALLBACK_AUDIO_PATH
         THEN [s EXCEPT !.currentAudioSrc = FALLBACK_AUDIO_PATH,
                        !.timers.fallback = TRUE]
         ELSE s

\* the fallback timer of tryFallbackAudio is not kept in any field
tryFallbackAudio(s) ==
    IF s.audio = "null" \/ s.isLoaded THEN s
    ELSE IF s.currentAudioSrc # FALLBACK_AUDIO_PATH
         THEN [s EXCEPT !.currentAudioSrc = FALLBACK_AUDIO_PATH,
                        !.timers.fallback = TRUE]
         ELSE handleLoadSuccess(s)

handleLoadError(s) ==
    IF s.currentAudioSrc # FALLBACK_AUDIO_PATH THEN tryFallbackAudio(s)
    ELSE handleLoadSuccess(s)

resumeLoading(s) ==
    IF s.audio # "null" /\ ~s.isLoaded
    THEN [s EXCEPT !.timers.resume = @ + 1]
    ELSE s

\* the constructor with initializeAudio and loadAudioWithFallback; created is
\* false when new Audio() throws
newAudioService(audioSrc, created) ==
    LET fields == [NoService EXCEPT !.constructed = TRUE,
                                     !.currentAudioSrc = audioSrc]
    IN  IF created
        THEN [fields EXCEPT !.audio = "element", !.listeners = TRUE,
                            !.loadingTimeout = "set",
                            !.timers.primary = TRUE, !.loadAttempted = TRUE]
        ELSE handleLoadSuccess(fields)

\* destroy leaving the fallback and resume timers pending
destroy(s) ==
    [s EXCEPT !.timers.primary = IF s.loadingTimeout # "null" THEN FALSE ELSE @,
              !.loadingTimeout = "null",
              !.audio = "null",
              !.isLoaded = FALSE,
              !.loadAttempted = FALSE,
              !.destroyed = TRUE]

isAudioLoaded(s) == s.isLoaded

InitAudio ==
    /\ gameState = Unmounted
    /\ call = NoCall
    /\ ret = NoReturn
    /\ steps = 0
    /\ ComponentIdle
    /\ audio = NoService

\* new AudioService(audioSrc), as useAudio makes it
Construct(audioSrc, created) ==
    /\ ~audio.constructed
    /\ audio' = newAudioService(audioSrc, created)
    /\ call' = [fn |-> "new", audioSrc |-> audioSrc]
    /\ UNCHANGED <<gameState, ret, steps, componentVars>>

\* an event of the audio element reaches its listener; the listeners are
\* never removed
MediaEvent(type) ==
    /\ audio.listeners
    /\ type \in {"suspend", "stalled"} => audio.timers.resume < MaxResume
    /\ audio' = CASE type \in {"canplay", "canplaythrough", "loadeddata"} ->
                         handleLoadSuccess(audio)
                  [] type \in {"suspend", "stalled"} -> resumeLoading(audio)
                  [] type = "error" -> handleLoadError(audio)
                  [] OTHER -> audio
    /\ call' = [fn |-> "event", type |-> type]
    /\ UNCHANGED <<gameState, ret, steps, componentVars>>

\* the timer of loadAudioWithFallback fires
PrimaryTimeout ==
    /\ audio.timers.primary
    /\ LET s == [audio EXCEPT !.timers.primary = FALSE]
       IN  audio' = IF ~s.isLoaded /\ s.audio # "null" THEN tryFallbackAudio(s) ELSE s
    /\ call' = [fn |-> "primaryTimeout"]
    /\ UNCHANGED <<gameState, ret, steps, componentVars>>

\* the timer of tryFallbackAudio fires
FallbackTimeout ==
    /\ audio.timers.fallback
    /\ LET s == [audio EXCEPT !.timers.fallback = FALSE]
       IN  audio' = IF ~s.isLoaded THEN handleLoadSuccess(s) ELSE s
    /\ call' = [fn |-> "fallbackTimeout"]
    /\ UNCHANGED <<gameState, ret, steps, componentVars>>

\* a timer of resumeLoading fires: it calls audio.load(), which changes no
\* field of the service
ResumeTimeout ==
    /\ audio.timers.resume > 0
    /\ audio' = [audio EXCEPT !.timers.resume = @ - 1]
    /\ call' = [fn |-> "resumeTimeout"]
    /\ UNCHANGED <<gameState, ret, steps, componentVars>>

ForceLoad ==
    /\ audio.constructed
    /\ ~audio.destroyed
    /\ audio' = handleLoadSuccess(audio)
    /\ call' = [fn |-> "forceLoad"]
    /\ UNCHANGED <<gameState, ret, steps, componentVars>>

Destroy ==
    /\ audio.constructed
    /\ ~audio.destroyed
    /\ audio' = destroy(audio)
    /\ call' = [fn |-> "destroy"]
    /\ UNCHANGED <<gameState, ret, steps, componentVars>>

NextAudio ==
    \/ \E audioSrc \in {AUDIO_PATH, FALLBACK_AUDIO_PATH}, created \in BOOLEAN :
           Construct(audioSrc, created)
    \/ \E type \in MediaEvents : MediaEvent(type)
    \/ PrimaryTimeout
    \/ FallbackTimeout
    \/ ResumeTimeout
    \/ ForceLoad
    \/ Destroy

\* a timer that was set and not cleared fires
SpecAudio ==
    /\ InitAudio
    /\ [][NextAudio]_vars
    /\ WF_vars(PrimaryTimeout)
    /\ WF_vars(FallbackTimeout)
    /\ WF_vars(ResumeTimeout)

\* the fields of the service
ServiceState(s) ==
    <<s.audio, s.isLoaded, s.loadAttempted, s.loadingTimeout, s.currentAudioSrc>>

\* C38: after destroy() no pending timer changes the service's state:
\* whichever load, fallback or resume timer fires, the fields stay as destroy
\* left them and isAudioLoaded() stays false.
C38_NoTimerAfterDestroy ==
    [][(audio.destroyed
          /\ call'.fn \in {"primaryTimeout", "fallbackTimeout", "resumeTimeout"}) =>
           /\ ServiceState(audio') = ServiceState(audio)
           /\ isAudioLoaded(audio) = isAudioLoaded(audio')]_vars

\* C40: audio loading never stays stuck: once the service is constructed and
\* as long as destroy() is not called, isAudioLoaded() becomes true whatever
\* events the audio element sends or withholds, and once true it stays true
\* until destroy().
C40_LoadingCompletes ==
    /\ []((audio.constructed /\ ~audio.destroyed) =>
              <>(isAudioLoaded(audio) \/ audio.destroyed))
    /\ [][(isAudioLoaded(audio) /\ ~isAudioLoaded(audio')) =>
              call'.fn = "destroy"]_vars

\* loaded by the second timer, after the source was switched to the fallback
C40_Witness ==
    /\ call.fn = "fallbackTimeout"
    /\ isAudioLoaded(audio)
    /\ ~audio.destroyed
    /\ audio.currentAudioSrc = FALLBACK_AUDIO_PATH

=============================================================================
